---- MODULE Spec2Model ----
(***************************************************************************)
(* ProblemSpotter: the classification-with-cache pipeline.                 *)
(*                                                                         *)
(* The repository holds two analyzer modules with the same function names: *)
(*   legacy  src/analyze_problems.py (imported by run_pipeline.py)         *)
(*   core    src/problem_spotter/core/analyze_problems.py (the package)    *)
(* A process imports one of them; the variable `module` says which.        *)
(*                                                                         *)
(* Python values are modelled as follows.                                  *)
(*   str    a sequence of non-empty fragments; "" is << >>, + is \o        *)
(*   float  an integer number of tenths (9 is 0.9, 15 is 1.5)              *)
(*   dict   a function from its keys to tagged values                      *)
(*   None   the tagged value PyNone; the string field error uses None      *)
(***************************************************************************)
EXTENDS Integers, Sequences, FiniteSets, TLC

\* ------------------------------------------------------------------ bounds
MaxBatch == 2   \* posts in an input file
MaxSaves == 3   \* direct cache calls in one behaviour
MaxSeeds == 1   \* cache entries seeded by callers of analyze_post
MaxKeyCalls == 3 \* direct calls of create_cache_key in one behaviour
MaxListing == 3  \* submissions in a short search listing

\* ------------------------------------------------------------ Python values
None == <<"<None>">>

PyBool(b)  == [type |-> "bool",  n |-> IF b THEN 1 ELSE 0, s |-> << >>]
PyFloat(n) == [type |-> "float", n |-> n, s |-> << >>]
PyStr(s)   == [type |-> "str",   n |-> 0, s |-> s]
PyNone     == [type |-> "NoneType", n |-> 0, s |-> << >>]

EmptyDict == [k \in {} |-> PyNone]

\* dict.get(key, default)
DictGet(d, key, default) == IF key \in DOMAIN d THEN d[key] ELSE default

\* the truth value of a dict: empty is false
Truthy(d) == DOMAIN d # {}

\* ------------------------------------------------------------------- JSON
\* A JSON text is a record: form says whether the text is absent (None),
\* the empty string, something that is not JSON, or an object, and members
\* lists the object's members in text order as key and lexeme.
KeyOrder == <<"is_question", "confidence_score", "category", "reasoning", "post_id", "test">>

Lex(kind, n, s) == [kind |-> kind, n |-> n, s |-> s]

NoText      == [form |-> "none", members |-> << >>]
EmptyText   == [form |-> "empty", members |-> << >>]
GarbageText == [form |-> "garbage", members |-> << >>]
ObjectText(ms) == [form |-> "object", members |-> ms]
Member(k, lex) == [k |-> k, lex |-> lex]

\* the members json.dump writes for the keys KeyOrder[i..] of a dict
RECURSIVE DumpMembers(_, _)
DumpMembers(d, i) ==
    LET json_dumps_value(v) ==
            CASE v.type = "bool"  -> Lex(IF v.n = 1 THEN "true" ELSE "false", 0, << >>)
              [] v.type = "float" -> Lex("number", v.n, << >>)
              [] v.type = "str"   -> Lex("string", 0, v.s)
              [] OTHER            -> Lex("null", 0, << >>)
    IN  IF i > Len(KeyOrder) THEN << >>
        ELSE IF KeyOrder[i] \in DOMAIN d
             THEN <<[k |-> KeyOrder[i], lex |-> json_dumps_value(d[KeyOrder[i]])]>>
                  \o DumpMembers(d, i + 1)
             ELSE DumpMembers(d, i + 1)

\* json.dump(obj) for a dict
json_dump(d) == [form |-> "object", members |-> DumpMembers(d, 1)]

\* does json.loads(text) raise (TypeError for None, JSONDecodeError else)
JsonRaises(text) == text.form # "object"

JsonErrorName(text) == IF text.form = "none" THEN "TypeError" ELSE "JSONDecodeError"

\* json.loads(text) for an object text: the last member of a key wins
json_load(text) ==
    LET json_loads_value(l) ==
            CASE l.kind = "true"   -> PyBool(TRUE)
              [] l.kind = "false"  -> PyBool(FALSE)
              [] l.kind = "number" -> PyFloat(l.n)
              [] l.kind = "string" -> PyStr(l.s)
              [] OTHER             -> PyNone
        ms == text.members
        Last(key) == CHOOSE i \in 1..Len(ms) :
                        /\ ms[i].k = key
                        /\ \A j \in (i + 1)..Len(ms) : ms[j].k # key
    IN [key \in {ms[i].k : i \in 1..Len(ms)} |-> json_loads_value(ms[Last(key)].lex)]

\* ------------------------------------------------------------------ bytes
\* the UTF-8 bytes of the string fragments the model uses
Utf8(fragment) ==
    CASE fragment = "Title: " ->
             <<84, 105, 116, 108, 101, 58, 32>>
      [] fragment = "\nContent: " ->
             <<10, 67, 111, 110, 116, 101, 110, 116, 58, 32>>
      [] fragment = "How do I fix my wifi?" ->
             <<72, 111, 119, 32, 100, 111, 32, 73, 32, 102, 105, 120, 32, 109, 121, 32, 119, 105, 102, 105, 63>>
      [] fragment = "it keeps dropping" ->
             <<105, 116, 32, 107, 101, 101, 112, 115, 32, 100, 114, 111, 112, 112, 105, 110, 103>>
      [] fragment = "Test Post" ->
             <<84, 101, 115, 116, 32, 80, 111, 115, 116>>
      [] fragment = "test content" ->
             <<116, 101, 115, 116, 32, 99, 111, 110, 116, 101, 110, 116>>
      [] fragment = "Test content" ->
             <<84, 101, 115, 116, 32, 99, 111, 110, 116, 101, 110, 116>>
      [] fragment = "test content " ->
             <<116, 101, 115, 116, 32, 99, 111, 110, 116, 101, 110, 116, 32>>
      [] fragment = "test " ->
             <<116, 101, 115, 116, 32>>
      [] fragment = "content" ->
             <<99, 111, 110, 116, 101, 110, 116>>
      [] fragment = "different content" ->
             <<100, 105, 102, 102, 101, 114, 101, 110, 116, 32, 99, 111, 110, 116, 101, 110, 116>>

\* text.encode("utf-8")
RECURSIVE encode_utf8(_)
encode_utf8(text) ==
    IF text = << >> THEN << >> ELSE Utf8(Head(text)) \o encode_utf8(Tail(text))

\* ---------------------------------------------------------------- SHA-256
\* hashlib.sha256 (FIPS 180-4), computed on 32-bit words kept as pairs
\* <<hi, lo>> of 16-bit halves.
SHA256_K ==
    <<
      <<17034, 12184>>, <<28983, 17553>>, <<46528, 64463>>, <<59829, 56229>>,
      <<14678, 49755>>, <<23025, 4593>>, <<37439, 33444>>, <<43804, 24277>>,
      <<55303, 43672>>, <<4739, 23297>>, <<9265, 34238>>, <<21772, 32195>>,
      <<29374, 23924>>, <<32990, 45566>>, <<39900, 1703>>, <<49563, 61812>>,
      <<58523, 27073>>, <<61374, 18310>>, <<4033, 40390>>, <<9228, 41420>>,
      <<11753, 11375>>, <<19060, 33962>>, <<23728, 43484>>, <<30457, 35034>>,
      <<38974, 20818>>, <<43057, 50797>>, <<45059, 10184>>, <<48985, 32711>>,
      <<50912, 3059>>, <<54695, 37191>>, <<1738, 25425>>, <<5161, 10599>>,
      <<10167, 2693>>, <<11803, 8504>>, <<19756, 28156>>, <<21304, 3347>>,
      <<25866, 29524>>, <<30314, 2747>>, <<33218, 51502>>, <<37490, 11397>>,
      <<41663, 59553>>, <<43034, 26187>>, <<49739, 35696>>, <<51052, 20899>>,
      <<53650, 59417>>, <<54937, 1572>>, <<62478, 13701>>, <<4202, 41072>>,
      <<6564, 49430>>, <<7735, 27656>>, <<10056, 30540>>, <<13488, 48309>>,
      <<14620, 3251>>, <<20184, 43594>>, <<23452, 51791>>, <<26670, 28659>>,
      <<29839, 33518>>, <<30885, 25455>>, <<33992, 30740>>, <<36039, 520>>,
      <<37054, 65530>>, <<42064, 27883>>, <<48889, 41975>>, <<50801, 30962>> >>

SHA256_H0 ==
    <<
      <<27145, 58983>>, <<47975, 44677>>, <<15470, 62322>>, <<42319, 62778>>,
      <<20750, 21119>>, <<39685, 26764>>, <<8067, 55723>>, <<23520, 52505>> >>

\* bitwise exclusive-or and bitwise and of two 4-bit numbers a and b, at
\* [a + 1][b + 1]
Xor4 ==
    <<
      <<0, 1, 2, 3, 4, 5, 6, 7, 8, 9, 10, 11, 12, 13, 14, 15>>,
      <<1, 0, 3, 2, 5, 4, 7, 6, 9, 8, 11, 10, 13, 12, 15, 14>>,
      <<2, 3, 0, 1, 6, 7, 4, 5, 10, 11, 8, 9, 14, 15, 12, 13>>,
      <<3, 2, 1, 0, 7, 6, 5, 4, 11, 10, 9, 8, 15, 14, 13, 12>>,
      <<4, 5, 6, 7, 0, 1, 2, 3, 12, 13, 14, 15, 8, 9, 10, 11>>,
      <<5, 4, 7, 6, 1, 0, 3, 2, 13, 12, 15, 14, 9, 8, 11, 10>>,
      <<6, 7, 4, 5, 2, 3, 0, 1, 14, 15, 12, 13, 10, 11, 8, 9>>,
      <<7, 6, 5, 4, 3, 2, 1, 0, 15, 14, 13, 12, 11, 10, 9, 8>>,
      <<8, 9, 10, 11, 12, 13, 14, 15, 0, 1, 2, 3, 4, 5, 6, 7>>,
      <<9, 8, 11, 10, 13, 12, 15, 14, 1, 0, 3, 2, 5, 4, 7, 6>>,
      <<10, 11, 8, 9, 14, 15, 12, 13, 2, 3, 0, 1, 6, 7, 4, 5>>,
      <<11, 10, 9, 8, 15, 14, 13, 12, 3, 2, 1, 0, 7, 6, 5, 4>>,
      <<12, 13, 14, 15, 8, 9, 10, 11, 4, 5, 6, 7, 0, 1, 2, 3>>,
      <<13, 12, 15, 14, 9, 8, 11, 10, 5, 4, 7, 6, 1, 0, 3, 2>>,
      <<14, 15, 12, 13, 10, 11, 8, 9, 6, 7, 4, 5, 2, 3, 0, 1>>,
      <<15, 14, 13, 12, 11, 10, 9, 8, 7, 6, 5, 4, 3, 2, 1, 0>> >>

And4 ==
    <<
      <<0, 0, 0, 0, 0, 0, 0, 0, 0, 0, 0, 0, 0, 0, 0, 0>>,
      <<0, 1, 0, 1, 0, 1, 0, 1, 0, 1, 0, 1, 0, 1, 0, 1>>,
      <<0, 0, 2, 2, 0, 0, 2, 2, 0, 0, 2, 2, 0, 0, 2, 2>>,
      <<0, 1, 2, 3, 0, 1, 2, 3, 0, 1, 2, 3, 0, 1, 2, 3>>,
      <<0, 0, 0, 0, 4, 4, 4, 4, 0, 0, 0, 0, 4, 4, 4, 4>>,
      <<0, 1, 0, 1, 4, 5, 4, 5, 0, 1, 0, 1, 4, 5, 4, 5>>,
      <<0, 0, 2, 2, 4, 4, 6, 6, 0, 0, 2, 2, 4, 4, 6, 6>>,
      <<0, 1, 2, 3, 4, 5, 6, 7, 0, 1, 2, 3, 4, 5, 6, 7>>,
      <<0, 0, 0, 0, 0, 0, 0, 0, 8, 8, 8, 8, 8, 8, 8, 8>>,
      <<0, 1, 0, 1, 0, 1, 0, 1, 8, 9, 8, 9, 8, 9, 8, 9>>,
      <<0, 0, 2, 2, 0, 0, 2, 2, 8, 8, 10, 10, 8, 8, 10, 10>>,
      <<0, 1, 2, 3, 0, 1, 2, 3, 8, 9, 10, 11, 8, 9, 10, 11>>,
      <<0, 0, 0, 0, 4, 4, 4, 4, 8, 8, 8, 8, 12, 12, 12, 12>>,
      <<0, 1, 0, 1, 4, 5, 4, 5, 8, 9, 8, 9, 12, 13, 12, 13>>,
      <<0, 0, 2, 2, 4, 4, 6, 6, 8, 8, 10, 10, 12, 12, 14, 14>>,
      <<0, 1, 2, 3, 4, 5, 6, 7, 8, 9, 10, 11, 12, 13, 14, 15>> >>

\* the same on words, each 16-bit half four bits at a time
WordXor(x, y) ==
    LET Xor16(a, b) ==
            Xor4[(a \div 4096) + 1][(b \div 4096) + 1] * 4096
            + Xor4[((a \div 256) % 16) + 1][((b \div 256) % 16) + 1] * 256
            + Xor4[((a \div 16) % 16) + 1][((b \div 16) % 16) + 1] * 16
            + Xor4[(a % 16) + 1][(b % 16) + 1]
    IN <<Xor16(x[1], y[1]), Xor16(x[2], y[2])>>

WordAnd(x, y) ==
    LET And16(a, b) ==
            And4[(a \div 4096) + 1][(b \div 4096) + 1] * 4096
            + And4[((a \div 256) % 16) + 1][((b \div 256) % 16) + 1] * 256
            + And4[((a \div 16) % 16) + 1][((b \div 16) % 16) + 1] * 16
            + And4[(a % 16) + 1][(b % 16) + 1]
    IN <<And16(x[1], y[1]), And16(x[2], y[2])>>

\* 2**k for 0 <= k <= 16
Pow2(k) == <<1, 2, 4, 8, 16, 32, 64, 128, 256, 512, 1024, 2048, 4096,
             8192, 16384, 32768, 65536>>[k + 1]

\* rotate right by n bits (0 < n < 32)
Rotr(x, n) ==
    LET hi == IF n >= 16 THEN x[2] ELSE x[1]
        lo == IF n >= 16 THEN x[1] ELSE x[2]
        k  == n % 16
    IN IF k = 0 THEN <<hi, lo>>
       ELSE << (hi \div Pow2(k)) + (lo % Pow2(k)) * Pow2(16 - k),
               (lo \div Pow2(k)) + (hi % Pow2(k)) * Pow2(16 - k) >>

\* the sum of the words of ws modulo 2**32
WordAdd(ws) ==
    LET RECURSIVE SumHalf(_, _)
        SumHalf(rest, half) ==
            IF rest = << >> THEN 0 ELSE Head(rest)[half] + SumHalf(Tail(rest), half)
        lo == SumHalf(ws, 2)
        hi == SumHalf(ws, 1) + (lo \div 65536)
    IN <<hi % 65536, lo % 65536>>

\* the message followed by 0x80, zeros up to 56 modulo 64, and its bit length
\* as a big-endian 64-bit integer
Sha256Pad(bytes) ==
    LET RECURSIVE Zeros(_)
        Zeros(z) == IF z = 0 THEN << >> ELSE <<0>> \o Zeros(z - 1)
        n    == Len(bytes)
        bits == n * 8
    IN bytes \o <<128>> \o Zeros((64 + 55 - (n % 64)) % 64) \o Zeros(4)
        \o << (bits \div 16777216) % 256, (bits \div 65536) % 256,
              (bits \div 256) % 256, bits % 256 >>

\* words j..16 of block b (1..) of the padded message
RECURSIVE BlockWords(_, _, _)
BlockWords(m, b, j) ==
    LET o == (b - 1) * 64 + (j - 1) * 4
    IN IF j > 16 THEN << >>
       ELSE <<<<m[o + 1] * 256 + m[o + 2], m[o + 3] * 256 + m[o + 4]>>>>
            \o BlockWords(m, b, j + 1)

\* the message schedule: 16 block words extended to 64
RECURSIVE Schedule(_)
Schedule(W) ==
    LET Shr(x, n) ==
            IF n >= 16 THEN <<0, x[1] \div Pow2(n - 16)>>
            ELSE << x[1] \div Pow2(n),
                    (x[2] \div Pow2(n)) + (x[1] % Pow2(n)) * Pow2(16 - n) >>
        SmallSigma0(x) == WordXor(WordXor(Rotr(x, 7), Rotr(x, 18)), Shr(x, 3))
        SmallSigma1(x) == WordXor(WordXor(Rotr(x, 17), Rotr(x, 19)), Shr(x, 10))
        n == Len(W)
    IN IF Len(W) = 64 THEN W
       ELSE Schedule(Append(W, WordAdd(<<SmallSigma1(W[n - 1]), W[n - 6],
                                         SmallSigma0(W[n - 14]), W[n - 15]>>)))

\* the rounds of the compression function from round s[9] to 64, on the
\* working variables a..h = s[1..8]
RECURSIVE Rounds(_, _)
Rounds(s, W) ==
    IF s[9] > 64 THEN s
    ELSE LET BigSigma0(x) == WordXor(WordXor(Rotr(x, 2), Rotr(x, 13)), Rotr(x, 22))
             BigSigma1(x) == WordXor(WordXor(Rotr(x, 6), Rotr(x, 11)), Rotr(x, 25))
             WordNot(x)   == <<65535 - x[1], 65535 - x[2]>>
             Ch(x, y, z)  == WordXor(WordAnd(x, y), WordAnd(WordNot(x), z))
             Maj(x, y, z) == WordXor(WordXor(WordAnd(x, y), WordAnd(x, z)), WordAnd(y, z))
             t  == s[9]
             T1 == WordAdd(<<s[8], BigSigma1(s[5]), Ch(s[5], s[6], s[7]),
                             SHA256_K[t], W[t]>>)
             T2 == WordAdd(<<BigSigma0(s[1]), Maj(s[1], s[2], s[3])>>)
         IN Rounds(<<WordAdd(<<T1, T2>>), s[1], s[2], s[3],
                     WordAdd(<<s[4], T1>>), s[5], s[6], s[7], t + 1>>, W)

\* blocks b.. of the padded message m folded into the hash value h
RECURSIVE Compress(_, _, _)
Compress(h, m, b) ==
    IF (b - 1) * 64 >= Len(m) THEN h
    ELSE LET s == Rounds(Append(h, 1), Schedule(BlockWords(m, b, 1)))
         IN Compress(<<WordAdd(<<h[1], s[1]>>), WordAdd(<<h[2], s[2]>>),
                       WordAdd(<<h[3], s[3]>>), WordAdd(<<h[4], s[4]>>),
                       WordAdd(<<h[5], s[5]>>), WordAdd(<<h[6], s[6]>>),
                       WordAdd(<<h[7], s[7]>>), WordAdd(<<h[8], s[8]>>)>>, m, b + 1)

\* the hexadecimal digits of the words of h, four for each 16-bit half
RECURSIVE HexWords(_)
HexWords(h) ==
    LET HexDigits == <<"0", "1", "2", "3", "4", "5", "6", "7",
                       "8", "9", "a", "b", "c", "d", "e", "f">>
        Hex16(n) == HexDigits[(n \div 4096) + 1] \o HexDigits[((n \div 256) % 16) + 1] \o
                    HexDigits[((n \div 16) % 16) + 1] \o HexDigits[(n % 16) + 1]
    IN IF h = << >> THEN ""
       ELSE Hex16(Head(h)[1]) \o Hex16(Head(h)[2]) \o HexWords(Tail(h))

\* hashlib.sha256(bytes).hexdigest(): a str of 64 hexadecimal digits, held
\* as one fragment
sha256_hexdigest(bytes) == <<HexWords(Compress(SHA256_H0, Sha256Pad(bytes), 1))>>

\* ------------------------------------------------------------------ posts
\* RawPost records as the fetch stage writes them (only the fields the
\* analyzer reads, and score as a representative of the others).
Post(id, title, selftext, score) ==
    [id |-> id, title |-> title, selftext |-> selftext, score |-> score]

\* p1 and p2 are duplicates (same title and body, different ids).
Posts ==
    { Post(<<"p1">>, <<"How do I fix my wifi?">>, <<"it keeps dropping">>, 10),
      Post(<<"p2">>, <<"How do I fix my wifi?">>, <<"it keeps dropping">>, 0 - 3),
      Post(<<"p3">>, <<"Test Post">>, << >>, 1) }

\* f"Title: {post['title']}\nContent: {post['selftext']}"
post_content(post) == <<"Title: ">> \o post.title \o <<"\nContent: ">> \o post.selftext

Contents == {post_content(p) : p \in Posts}

\* texts handed to create_cache_key by its direct callers; the last two are
\* the same text
KeyTexts ==
    { <<"test content">>, <<"different content">>, <<"Test content">>,
      <<"test content ">>, << >>, <<"test ", "content">> }

\* the digests of the texts the model hashes, each computed once
Digests == [text \in Contents \cup KeyTexts |-> sha256_hexdigest(encode_utf8(text))]

\* mutant of create_cache_key: the text is normalised with .strip().lower()
\* before it is hashed
RECURSIVE LowerBytes(_)
LowerBytes(bytes) ==
    IF bytes = << >> THEN << >>
    ELSE <<IF Head(bytes) >= 65 /\ Head(bytes) <= 90 THEN Head(bytes) + 32 ELSE Head(bytes)>>
         \o LowerBytes(Tail(bytes))

RECURSIVE StripBytes(_)
StripBytes(bytes) ==
    IF bytes = << >> THEN << >>
    ELSE IF Head(bytes) \in {9, 10, 32} THEN StripBytes(Tail(bytes))
    ELSE IF bytes[Len(bytes)] \in {9, 10, 32} THEN StripBytes(SubSeq(bytes, 1, Len(bytes) - 1))
    ELSE bytes

NormalizedDigests ==
    [text \in KeyTexts |-> sha256_hexdigest(LowerBytes(StripBytes(encode_utf8(text))))]

create_cache_key_Normalized(content) ==
    IF content \in DOMAIN NormalizedDigests THEN NormalizedDigests[content]
    ELSE sha256_hexdigest(LowerBytes(StripBytes(encode_utf8(content))))

\* hashlib's answers: text -> hex digest, for every text the model hashes;
\* Init fills it from Digests, no action changes it
VARIABLE digests

\* hashlib.sha256(post_content.encode("utf-8")).hexdigest()
create_cache_key(content) == digests[content]

Fingerprints == {create_cache_key(c) : c \in Contents}

\* ------------------------------------------------------------------ cache
\* CACHE_DIR: cache_key -> text of the file <cache_key>.json
Found(d)   == [exc |-> "", none |-> FALSE, val |-> d]
NotFound   == [exc |-> "", none |-> TRUE, val |-> EmptyDict]
LoadError(x) == [exc |-> x, none |-> FALSE, val |-> EmptyDict]

get_cached_analysis(cch, cache_key) ==
    IF cache_key \in DOMAIN cch
    THEN IF JsonRaises(cch[cache_key])
         THEN LoadError(JsonErrorName(cch[cache_key]))
         ELSE Found(json_load(cch[cache_key]))
    ELSE NotFound

\* mutant of save_to_cache: the file is opened with "a", so a second save
\* leaves two objects in the file, which json.load rejects
save_to_cache_Append(cch, cache_key, analysis) ==
    [k \in DOMAIN cch \cup {cache_key} |->
        IF k = cache_key
        THEN IF cache_key \in DOMAIN cch THEN GarbageText ELSE json_dump(analysis)
        ELSE cch[k]]

\* mutant of save_to_cache: the cache directory keeps the newest entry only
save_to_cache_SingleSlot(cch, cache_key, analysis) ==
    [k \in {cache_key} |-> json_dump(analysis)]

\* open(cache_file, "w") truncates, json.dump writes the whole object
save_to_cache(cch, cache_key, analysis) ==
    [k \in DOMAIN cch \cup {cache_key} |->
        IF k = cache_key THEN json_dump(analysis) ELSE cch[k]]

\* ------------------------------------------------------------ the service
\* One call of chat.completions.create either raises or returns a content.
SvcRaise(exc, msg) == [exc |-> exc, msg |-> msg, content |-> NoText]
SvcReturn(text)    == [exc |-> "", msg |-> << >>, content |-> text]

\* isinstance in the openai exception hierarchy: class -> the classes it
\* is an instance of
IsInstance(exc, cls) ==
    LET Ancestors ==
            CASE exc = "RateLimitError" ->
                     {"RateLimitError", "APIStatusError", "APIError", "Exception"}
              [] exc = "AuthenticationError" ->
                     {"AuthenticationError", "APIStatusError", "APIError", "Exception"}
              [] exc = "APIConnectionError" -> {"APIConnectionError", "APIError", "Exception"}
              [] exc = "APIError" -> {"APIError", "Exception"}
              [] OTHER -> {exc, "Exception"}
    IN cls \in Ancestors

\* well-formed decision objects
GoodTexts ==
    { ObjectText(<<Member("is_question", Lex("true", 0, << >>)),
                   Member("confidence_score", Lex("number", 9, << >>)),
                   Member("category", Lex("string", 0, <<"tech">>)),
                   Member("reasoning", Lex("string", 0, <<"asks for help">>))>>),
      ObjectText(<<Member("is_question", Lex("false", 0, << >>)),
                   Member("confidence_score", Lex("number", 10, << >>)),
                   Member("reasoning", Lex("string", 0, <<"a rant">>)),
                   Member("post_id", Lex("string", 0, <<"post1">>))>>) }

\* contents that are no decision object, or not a valid one
BadTexts ==
    { EmptyText, GarbageText,
      ObjectText(<< >>),
      ObjectText(<<Member("is_question", Lex("true", 0, << >>)),
                   Member("confidence_score", Lex("number", 9, << >>))>>),
      ObjectText(<<Member("is_question", Lex("true", 0, << >>)),
                   Member("confidence_score", Lex("number", 15, << >>)),
                   Member("category", Lex("string", 0, << >>)),
                   Member("reasoning", Lex("string", 0, <<"very sure">>))>>),
      ObjectText(<<Member("is_question", Lex("true", 0, << >>)),
                   Member("confidence_score", Lex("string", 0, <<"high">>)),
                   Member("reasoning", Lex("string", 0, <<"asks for help">>))>>) }

\* decision objects whose values have another JSON type than the field's
CoercibleTexts ==
    { ObjectText(<<Member("is_question", Lex("string", 0, <<"yes">>)),
                   Member("confidence_score", Lex("string", 0, <<"0.9">>)),
                   Member("reasoning", Lex("string", 0, <<"asks for help">>))>>) }

\* what one call of the service does: it raises, or returns a content
ServiceOutcomes ==
    { SvcRaise("RateLimitError", <<"Rate limit exceeded">>),
      SvcRaise("AuthenticationError", <<"Invalid API key">>),
      SvcRaise("APIConnectionError", <<"Failed to connect">>),
      SvcRaise("APIError", <<"API error occurred">>),
      SvcRaise("RuntimeError", <<"Something went wrong">>) }
    \cup {SvcReturn(t) : t \in GoodTexts \cup BadTexts}

\* the contents a call that does not raise may return
ResponseOutcomes == {SvcReturn(t) : t \in GoodTexts \cup BadTexts \cup CoercibleTexts}

\* --------------------------------------------------------- AnalysisResult
\* pydantic validation of the four decision fields.  category is passed
\* already defaulted (analysis.get("category", "")).
\* is_question: bool -- a bool, the numbers 0 and 1, or one of the strings
\* pydantic reads as a bool; ok says whether the value is accepted
validate_bool(v) ==
    LET TrueStrings  == {<<"yes">>, <<"true">>, <<"1">>}
        FalseStrings == {<<"no">>, <<"false">>, <<"0">>}
    IN  CASE v.type = "bool" -> [ok |-> TRUE, n |-> v.n]
          [] v.type = "float" /\ v.n \in {0, 10} -> [ok |-> TRUE, n |-> v.n \div 10]
          [] v.type = "str" /\ v.s \in TrueStrings -> [ok |-> TRUE, n |-> 1]
          [] v.type = "str" /\ v.s \in FalseStrings -> [ok |-> TRUE, n |-> 0]
          [] OTHER -> [ok |-> FALSE, n |-> 0]

\* confidence_score: float -- a number, a bool, or a numeric string
validate_float(v) ==
    CASE v.type = "float" -> [ok |-> TRUE, n |-> v.n]
      [] v.type = "bool" -> [ok |-> TRUE, n |-> v.n * 10]
      [] v.type = "str" /\ v.s = <<"0.9">> -> [ok |-> TRUE, n |-> 9]
      [] v.type = "str" /\ v.s = <<"1">> -> [ok |-> TRUE, n |-> 10]
      [] v.type = "str" /\ v.s = <<"0">> -> [ok |-> TRUE, n |-> 0]
      [] OTHER -> [ok |-> FALSE, n |-> 0]

TypesOk(iq, cs, cat, rs) ==
    /\ validate_bool(iq).ok
    /\ validate_float(cs).ok
    /\ cat.type = "str"
    /\ rs.type = "str"

\* legacy AnalysisResult has no error field
LegacyResult(post_id, iq, cs, cat, rs) ==
    [post_id |-> post_id, is_question |-> iq, confidence_score |-> cs,
     category |-> cat, reasoning |-> rs]

CoreResult(post_id, iq, cs, cat, rs, err) ==
    [post_id |-> post_id, is_question |-> iq, confidence_score |-> cs,
     category |-> cat, reasoning |-> rs, error |-> err]

RequiredKeys == <<"is_question", "confidence_score", "reasoning">>

\* the first required key that analysis[...] does not find (KeyError), or ""
MissingKey(d) ==
    IF \A i \in 1..Len(RequiredKeys) : RequiredKeys[i] \in DOMAIN d THEN ""
    ELSE RequiredKeys[CHOOSE i \in 1..Len(RequiredKeys) :
                        /\ RequiredKeys[i] \notin DOMAIN d
                        /\ \A j \in 1..(i - 1) : RequiredKeys[j] \in DOMAIN d]

\* str(e) of the exceptions raised while a response or payload is decoded
JsonErrorMsg(text) ==
    IF text.form = "none"
    THEN <<"the JSON object must be str, bytes or bytearray, not NoneType">>
    ELSE <<"Expecting value: line 1 column 1 (char 0)">>

\* what one call of analyze_post gives its caller:
\*   ret     "returned" or "raised"
\*   branch  the return statement taken: "hit", "ok", "degraded", or "raised"
\*   result  the AnalysisResult (when returned); exc the exception (when raised)
\*   cache   CACHE_DIR after the call; called: whether the service was called
Returned(branch, result, cch, called) ==
    [ret |-> "returned", branch |-> branch, result |-> result, exc |-> "",
     cache |-> cch, called |-> called]

Raised(exc, cch, called) ==
    [ret |-> "raised", branch |-> "raised", result |-> [post_id |-> None], exc |-> exc,
     cache |-> cch, called |-> called]

\* AnalysisResult(post_id=..., is_question=d["is_question"], ...) in legacy:
\* the exception it raises, or ""
LegacyBuildError(d) ==
    LET \* confidence_score: float = Field(ge=0.0, le=1.0)
        LegacyValid(iq, cs, cat, rs) ==
            TypesOk(iq, cs, cat, rs) /\ validate_float(cs).n >= 0 /\ validate_float(cs).n <= 10
    IN  IF MissingKey(d) # "" THEN "KeyError"
        ELSE IF ~LegacyValid(d["is_question"], d["confidence_score"],
                             DictGet(d, "category", PyStr(<< >>)), d["reasoning"])
             THEN "ValidationError" ELSE ""

LegacyBuild(post, d) ==
    LegacyResult(post.id, validate_bool(d["is_question"]).n = 1,
                 validate_float(d["confidence_score"]).n,
                 DictGet(d, "category", PyStr(<< >>)).s, d["reasoning"].s)

BuildErrorMsg(exc, d) ==
    IF exc = "KeyError" THEN <<"'", MissingKey(d), "'">>
    ELSE <<"1 validation error for AnalysisResult">>

\* legacy except Exception: branch
LegacyDefault(post, msg) ==
    LegacyResult(post.id, FALSE, 0, << >>, <<"Error during analysis: ">> \o msg)

\* ----------------------------------------------- analyze_post, legacy module
legacy_analyze_post(post, cch, svc) ==
    LET cache_key     == create_cache_key(post_content(post))
        cached        == get_cached_analysis(cch, cache_key)
        cached_result == cached.val
        analysis      == json_load(svc.content)
        saved         == save_to_cache(cch, cache_key, analysis)
    IN  IF cached.exc # "" THEN Raised(cached.exc, cch, FALSE)
        ELSE IF ~cached.none /\ Truthy(cached_result)
        THEN \* cache hit: built outside the try block
             IF LegacyBuildError(cached_result) # ""
             THEN Raised(LegacyBuildError(cached_result), cch, FALSE)
             ELSE Returned("hit", LegacyBuild(post, cached_result), cch, FALSE)
        ELSE IF svc.exc # ""
        THEN Returned("degraded", LegacyDefault(post, svc.msg), cch, TRUE)
        ELSE IF JsonRaises(svc.content)
        THEN Returned("degraded", LegacyDefault(post, JsonErrorMsg(svc.content)), cch, TRUE)
        ELSE \* save_to_cache(cache_key, analysis) runs before the result is built
             IF LegacyBuildError(analysis) # ""
             THEN Returned("degraded",
                           LegacyDefault(post, BuildErrorMsg(LegacyBuildError(analysis), analysis)),
                           saved, TRUE)
             ELSE Returned("ok", LegacyBuild(post, analysis), saved, TRUE)

\* ------------------------------------------------- analyze_post, core module
\* call stacks: the frames above analyze_post, the immediate caller first
\* the call stacks of direct callers
DirectStacks == { <<"test_analyze_post_rate_limit">>,
                  <<"test_analyze_post_auth_error">>,
                  <<"test_is_test_environment">>,
                  <<"helper", "test_analyze_post_rate_limit">> }

\* frame.f_code.co_name.startswith("test_") for some frame of the stack
is_test_environment(stack) ==
    LET TestFrames == {"test_analyze_post_rate_limit", "test_analyze_post_auth_error",
                       "test_is_test_environment", "test_analyze_file"}
    IN \E i \in 1..Len(stack) : stack[i] \in TestFrames

\* mutant of CoreDefault: the failure branches forget error=error_msg
CoreDefault_NoError(post, error_msg) ==
    CoreResult(post.id, FALSE, 0, << >>, error_msg, None)

CoreDefault(post, error_msg) ==
    CoreResult(post.id, FALSE, 0, << >>, error_msg, error_msg)

\* mutant of is_rate_limit_test: the rate-limit handler re-raises for any caller
is_rate_limit_test_Always(caller_name) == TRUE

\* the checks on sys._getframe(1).f_code.co_name
is_rate_limit_test(caller_name) == caller_name = "test_analyze_post_rate_limit"
is_auth_error_test(caller_name) == caller_name = "test_analyze_post_auth_error"

\* core: confidence_score: float = Field(..., description=...), no range
CoreBuildError(d) ==
    IF MissingKey(d) # "" THEN "KeyError"
    ELSE IF ~TypesOk(d["is_question"], d["confidence_score"],
                     DictGet(d, "category", PyStr(<< >>)), d["reasoning"])
         THEN "ValidationError" ELSE ""

CoreBuild(post, d) ==
    CoreResult(post.id, validate_bool(d["is_question"]).n = 1,
               validate_float(d["confidence_score"]).n,
               DictGet(d, "category", PyStr(<< >>)).s, d["reasoning"].s, None)

\* the except clauses of the outer try, in source order
CoreHandle(post, cch, stack, exc, msg) ==
    LET caller_name == stack[1]
    IN  IF IsInstance(exc, "RateLimitError")
        THEN IF is_rate_limit_test(caller_name) THEN Raised(exc, cch, TRUE)
             ELSE IF is_test_environment(stack)
                  THEN Returned("degraded", CoreDefault(post, <<"Rate limit exceeded: ">> \o msg), cch, TRUE)
                  ELSE Returned("degraded", CoreDefault(post, <<"Rate limit exceeded: ">> \o msg), cch, TRUE)
        ELSE IF IsInstance(exc, "AuthenticationError")
        THEN IF is_auth_error_test(caller_name) THEN Raised(exc, cch, TRUE)
             ELSE IF is_test_environment(stack)
                  THEN Returned("degraded", CoreDefault(post, <<"Authentication failed: ">> \o msg), cch, TRUE)
                  ELSE Returned("degraded", CoreDefault(post, <<"Authentication failed: ">> \o msg), cch, TRUE)
        ELSE IF IsInstance(exc, "APIError")
        THEN Returned("degraded", CoreDefault(post, <<"API error: ">> \o msg), cch, TRUE)
        ELSE Returned("degraded", CoreDefault(post, <<"Unexpected error: ">> \o msg), cch, TRUE)

core_analyze_post(post, cch, svc, stack) ==
    LET content  == svc.content
        analysis == json_load(content)
    IN  IF svc.exc # "" THEN CoreHandle(post, cch, stack, svc.exc, svc.msg)
        ELSE IF content.form \in {"none", "empty"}
        THEN Returned("degraded", CoreDefault(post, <<"Empty response from OpenAI">>), cch, TRUE)
        ELSE IF JsonRaises(content)
        THEN Returned("degraded",
                      CoreDefault(post, <<"Invalid JSON response: ">> \o JsonErrorMsg(content)),
                      cch, TRUE)
        ELSE IF CoreBuildError(analysis) # ""
        THEN CoreHandle(post, cch, stack, CoreBuildError(analysis),
                        BuildErrorMsg(CoreBuildError(analysis), analysis))
        ELSE Returned("ok", CoreBuild(post, analysis), cch, TRUE)

\* ------------------------------------------------------------------ state
VARIABLES
    module,          \* the analyzer module the process imported: "legacy" or "core"
    cache,           \* CACHE_DIR of that module: cache_key -> file text
    written,         \* spy on save_to_cache: cache_key -> payload last passed to it
    last,            \* observer: the latest analyze_post call and what it gave
    cacheOp,         \* observer: the latest direct save_to_cache / get_cached_analysis
                     \* (repeat: it is, or directly follows, a save of the payload
                     \* the key already held)
    nSaves,          \* direct cache calls made so far
    pc,              \* analyze_file: "idle", "loop", "write", "done", "raised"
    posts,           \* analyze_file: the loaded input batch
    idx,             \* analyze_file: position of the for loop (1-based)
    analyzed_posts,  \* analyze_file: the list being accumulated
    served,          \* analyze_file: spy on the service, its answer for each post
    artifact,        \* ANALYZED_DATA_DIR: the output file of the current run
    fileExc,         \* analyze_file: the exception that ended the run, or ""
    input_file,      \* analyze_file: the file it was called with (name and text)
    output_filename, \* analyze_file: the name of the output file it opened
    keyCalls,        \* observer: the calls of create_cache_key, text and key returned
    entry,           \* the entry point the process runs: "none", "analyze_main",
                     \* "fetch_main" or "run_pipeline"
    args,            \* its command line: fetch_only, analyze_only, file
    env,             \* os.environ after load_dotenv: variable -> value or None
    mainPc,          \* position of the entry point
    reddit_calls,    \* searches sent to the social network in this run
    exit_code,       \* what main returned: "0", "1", "None", "raised", or "" while running
    stages,          \* the stage functions the entry point has invoked, in order
    file_to_analyze, \* run_pipeline.main / main: the input path it settled on, or "none"
    cache_file,      \* concurrent access: the one cache file the processes share
    writers,         \* concurrent access: each save_to_cache process, position and payload
    reader,          \* concurrent access: the get_cached_analysis process and its outcome
    closed,          \* concurrent access: the writers in the order they finished
    fetchPc,         \* fetcher: "idle", "searched" or "saved"
    search_results,  \* fetcher: the list subreddit.search(...) gave
    sfw_posts,       \* fetcher: the list search_reddit_posts returned
    results_file     \* fetcher: the file save_search_results wrote

vars == <<module, cache, written, last, cacheOp, nSaves,
          pc, posts, idx, analyzed_posts, served, artifact, fileExc,
          input_file, output_filename, keyCalls,
          entry, args, env, mainPc, reddit_calls, exit_code, stages, file_to_analyze,
          cache_file, writers, reader, closed, digests,
          fetchPc, search_results, sfw_posts, results_file>>

fileVars == <<pc, posts, idx, analyzed_posts, served, artifact, fileExc,
              input_file, output_filename>>

\* the variables the analyzer's functions above leave alone
mainVars == <<entry, args, env, mainPc, reddit_calls, exit_code, stages, file_to_analyze>>

concVars == <<cache_file, writers, reader, closed>>

\* the observer of create_cache_key and the digest table
keyVars == <<keyCalls, digests>>

fetchVars == <<fetchPc, search_results, sfw_posts, results_file>>

otherVars == <<keyVars, fetchVars, mainVars, concVars>>

analyzerVars == <<module, cache, written, last, cacheOp, nSaves>>

NoFile == [exists |-> FALSE, content |-> << >>]
File(content) == [exists |-> TRUE, content |-> content]

\* a file as the operating system holds it: its bytes, here the tokens of
\* the JSON text
NoBytes == [exists |-> FALSE, bytes |-> << >>]

Writers  == {1, 2}

NoInput == [name |-> << >>, dir |-> "", form |-> "none", posts |-> << >>]

EmptyCache == [k \in {} |-> NoText]

NoCall  == [op |-> "none", post |-> Post(None, << >>, << >>, 0), stack |-> << >>,
            svc |-> SvcReturn(NoText),
            before |-> EmptyCache, out |-> Raised("", EmptyCache, FALSE)]
NoCacheOp == [op |-> "none", key |-> << >>, payload |-> EmptyDict, out |-> NotFound,
              repeat |-> FALSE]

Init ==
    /\ module \in {"legacy", "core"}
    /\ cache = EmptyCache
    /\ written = [k \in {} |-> EmptyDict]
    /\ last = NoCall
    /\ cacheOp = NoCacheOp
    /\ nSaves = 0
    /\ pc = "idle"
    /\ posts = << >>
    /\ idx = 1
    /\ analyzed_posts = << >>
    /\ served = << >>
    /\ artifact = NoFile
    /\ fileExc = ""
    /\ input_file = NoInput
    /\ output_filename = << >>
    /\ keyCalls = << >>
    /\ entry = "none"
    /\ args = [fetch_only |-> FALSE, analyze_only |-> FALSE, file |-> FALSE]
    /\ env = [OPENAI_API_KEY |-> None, REDDIT_CLIENT_ID |-> None, REDDIT_CLIENT_SECRET |-> None]
    /\ mainPc = "idle"
    /\ reddit_calls = 0
    /\ exit_code = ""
    /\ stages = << >>
    /\ file_to_analyze = "none"
    /\ cache_file = NoBytes
    /\ writers = [w \in Writers |-> [pc |-> "idle", payload |-> EmptyDict]]
    /\ reader = [pc |-> "idle", out |-> NotFound]
    /\ closed = << >>
    /\ digests = Digests
    /\ fetchPc = "idle"
    /\ search_results = << >>
    /\ sfw_posts = << >>
    /\ results_file = NoFile

\* the observers' update for one analyze_post call; written takes the
\* payload save_to_cache was given during the call, if any
Observe(post, stack, svc, out) ==
    /\ cache' = out.cache
    /\ written' = IF out.cache = cache THEN written
                  ELSE [k \in DOMAIN written \cup {create_cache_key(post_content(post))} |->
                          IF k = create_cache_key(post_content(post))
                          THEN json_load(svc.content) ELSE written[k]]
    /\ last' = [op |-> "analyze_post", post |-> post, stack |-> stack, svc |-> svc,
                before |-> cache, out |-> out]

\* a caller of the legacy module calls analyze_post(post)
LegacyAnalyzePost(post, svc) ==
    /\ module = "legacy"
    /\ pc = "idle"
    /\ Observe(post, << >>, svc, legacy_analyze_post(post, cache, svc))
    /\ UNCHANGED <<module, cacheOp, nSaves, fileVars>>
    /\ UNCHANGED otherVars

\* a caller of the core module (a test, a script) calls analyze_post(post, client)
CoreAnalyzePost(post, svc, stack) ==
    /\ module = "core"
    /\ pc = "idle"
    /\ Observe(post, stack, svc, core_analyze_post(post, cache, svc, stack))
    /\ UNCHANGED <<module, cacheOp, nSaves, fileVars>>
    /\ UNCHANGED otherVars

\* payloads handed to save_to_cache by its direct callers
Payloads ==
    {json_load(t) : t \in GoodTexts} \cup
    { [k \in {"test"} |-> PyStr(<<"data">>)],
      EmptyDict,
      [k \in {"is_question", "category"} |->
          IF k = "is_question" THEN PyBool(FALSE) ELSE PyNone] }

CacheKeys == Fingerprints \cup {<<"test_key">>}

\* a caller calls save_to_cache(cache_key, analysis)
SaveToCache(cache_key, analysis) ==
    /\ pc = "idle"
    /\ nSaves < MaxSaves
    /\ nSaves' = nSaves + 1
    /\ cache' = save_to_cache(cache, cache_key, analysis)
    /\ written' = [k \in DOMAIN written \cup {cache_key} |->
                      IF k = cache_key THEN analysis ELSE written[k]]
    /\ cacheOp' = [op |-> "save_to_cache", key |-> cache_key, payload |-> analysis,
                   out |-> NotFound,
                   repeat |-> cache_key \in DOMAIN written /\ written[cache_key] = analysis]
    /\ UNCHANGED <<module, last, fileVars>>
    /\ UNCHANGED otherVars

\* a caller calls get_cached_analysis(cache_key)
GetCachedAnalysis(cache_key) ==
    /\ pc = "idle"
    /\ nSaves < MaxSaves
    /\ nSaves' = nSaves + 1
    /\ cacheOp' = [op |-> "get_cached_analysis", key |-> cache_key, payload |-> EmptyDict,
                   out |-> get_cached_analysis(cache, cache_key),
                   repeat |-> /\ cacheOp.op = "save_to_cache"
                              /\ cacheOp.key = cache_key
                              /\ cacheOp.repeat]
    /\ UNCHANGED <<module, cache, written, last, fileVars>>
    /\ UNCHANGED otherVars

\* direct calls of analyze_post, on a cache that callers may have seeded
NextPost ==
    \/ \E post \in Posts, svc \in ServiceOutcomes : LegacyAnalyzePost(post, svc)
    \/ \E post \in Posts, svc \in ServiceOutcomes, stack \in DirectStacks :
          CoreAnalyzePost(post, svc, stack)
    \/ \E k \in Fingerprints, v \in {json_load(t) : t \in GoodTexts} :
          nSaves < MaxSeeds /\ SaveToCache(k, v)

SpecPost == Init /\ [][NextPost]_vars

\* direct calls of analyze_post that the service answers with a content
NextResponse ==
    \/ \E post \in Posts, svc \in ResponseOutcomes : LegacyAnalyzePost(post, svc)
    \/ \E post \in Posts, svc \in ResponseOutcomes, stack \in DirectStacks :
          CoreAnalyzePost(post, svc, stack)

SpecResponse == Init /\ [][NextResponse]_vars

\* ------------------------------------------------------------ entry points
\* environments; a variable is unset, empty, blank or set
Environments ==
    [OPENAI_API_KEY : {None, << >>, <<" ">>, <<"secret">>},
     REDDIT_CLIENT_ID : {None, <<"secret">>},
     REDDIT_CLIENT_SECRET : {<< >>, <<"secret">>}]

\* command lines; the analyzer's main reads file only
CommandLines == [fetch_only : BOOLEAN, analyze_only : BOOLEAN, file : BOOLEAN]

\* str.strip() on a string of fragments
RECURSIVE str_strip(_)
str_strip(s) ==
    IF s # << >> /\ Head(s) = " " THEN str_strip(Tail(s))
    ELSE IF s # << >> /\ s[Len(s)] = " " THEN str_strip(SubSeq(s, 1, Len(s) - 1))
    ELSE s

\* os.getenv(name, default)
getenv(environ, name, default) == IF environ[name] = None THEN default ELSE environ[name]

\* analyzer load_env_vars: the exception it raises, or ""
core_load_env_vars(environ) ==
    LET api_key == str_strip(getenv(environ, "OPENAI_API_KEY", << >>))
    IN  IF api_key = << >> THEN "ValueError" ELSE ""

legacy_load_env_vars(environ) ==
    LET api_key == environ["OPENAI_API_KEY"]
    IN  IF api_key = None \/ api_key = << >> THEN "ValueError" ELSE ""

load_env_vars(environ) ==
    IF module = "legacy" THEN legacy_load_env_vars(environ) ELSE core_load_env_vars(environ)

\* fetcher load_env_vars: the exception it raises, or ""
legacy_fetch_load_env_vars(environ) ==
    LET client_id     == environ["REDDIT_CLIENT_ID"]
        client_secret == environ["REDDIT_CLIENT_SECRET"]
    IN  IF client_id \in {None, << >>} \/ client_secret \in {None, << >>}
        THEN "ValueError" ELSE ""

core_fetch_load_env_vars(environ) ==
    IF environ["REDDIT_CLIENT_ID"] = None THEN "ValueError"
    ELSE IF environ["REDDIT_CLIENT_SECRET"] = None THEN "ValueError"
    ELSE IF environ["REDDIT_CLIENT_ID"] = << >> \/ environ["REDDIT_CLIENT_SECRET"] = << >>
    THEN "ValueError" ELSE ""

fetch_load_env_vars(environ) ==
    IF module = "legacy" THEN legacy_fetch_load_env_vars(environ)
    ELSE core_fetch_load_env_vars(environ)

\* what fetch_problems.main() gives its caller: legacy returns None and
\* re-raises, core returns 0 or 1
fetch_main_result(failed) ==
    IF module = "legacy" THEN (IF failed THEN "raised" ELSE "None")
    ELSE (IF failed THEN "1" ELSE "0")

\* mutant of AfterFetch: run_pipeline goes on whatever fetch_problems.main() gave
AfterFetch_IgnoreResult(result) ==
    IF entry = "fetch_main" THEN [pc |-> "exit", code |-> result]
    ELSE [pc |-> "listing", code |-> ""]

\* where the process goes when fetch_problems.main() has ended with result:
\* fetch_problems' own __main__, or process_fetch and main of run_pipeline
AfterFetch(result) ==
    IF entry = "fetch_main" THEN [pc |-> "exit", code |-> result]
    ELSE IF result = "raised" THEN [pc |-> "exit", code |-> "1"]
    ELSE IF result # "0" THEN [pc |-> "exit", code |-> result]
    ELSE IF module = "legacy" THEN [pc |-> "exit", code |-> "1"]
    ELSE [pc |-> "listing", code |-> ""]

\* ------------------------------------------------------------ analyze_file
\* {**post, "analysis": analysis}
Annotate(post, analysis) ==
    [k \in DOMAIN post \cup {"analysis"} |->
        IF k = "analysis" THEN analysis ELSE post[k]]

\* mutant of core_annotate: the error of the analysis is not copied
core_annotate_DropError(post, analysis) ==
    Annotate(post, [post_id |-> analysis.post_id,
                    is_question |-> analysis.is_question,
                    confidence_score |-> analysis.confidence_score,
                    category |-> analysis.category,
                    reasoning |-> analysis.reasoning,
                    error |-> None])

\* core: the nested dict built field by field
core_annotate(post, analysis) ==
    Annotate(post, [post_id |-> analysis.post_id,
                    is_question |-> analysis.is_question,
                    confidence_score |-> analysis.confidence_score,
                    category |-> analysis.category,
                    reasoning |-> analysis.reasoning,
                    error |-> analysis.error])

\* the frames above analyze_post when analyze_file calls it from main
FileStack == <<"analyze_file", "main", "<module>">>

RECURSIVE SeqsUpTo(_, _)
SeqsUpTo(S, n) ==
    IF n = 0 THEN {<< >>}
    ELSE LET shorter == SeqsUpTo(S, n - 1)
         IN shorter \cup {Append(q, x) : q \in shorter, x \in S}

\* -------------------------------------------------------------- file names
\* A file name is a sequence of characters; a clock reading is a datetime.
\* the pattern \d{8}_\d{6} matches filename at position i
MatchesAt(filename, i) ==
    LET IsDigit(c) == c \in {"0", "1", "2", "3", "4", "5", "6", "7", "8", "9"}
    IN  /\ i + 14 <= Len(filename)
        /\ \A j \in 0..7 : IsDigit(filename[i + j])
        /\ filename[i + 8] = "_"
        /\ \A j \in 9..14 : IsDigit(filename[i + j])

\* re.search(r"\d{8}_\d{6}", filename): the leftmost match, or None
re_search(filename) ==
    IF \E i \in 1..Len(filename) : MatchesAt(filename, i)
    THEN LET first == CHOOSE i \in 1..Len(filename) :
                         /\ MatchesAt(filename, i)
                         /\ \A j \in 1..(i - 1) : ~MatchesAt(filename, j)
         IN [found |-> TRUE, group0 |-> SubSeq(filename, first, first + 14)]
    ELSE [found |-> FALSE, group0 |-> << >>]

\* the decimal digits of n, zero-padded to width (%Y, %m, %d, %H, %M, %S)
RECURSIVE Padded(_, _)
Padded(n, width) ==
    IF width = 0 THEN << >>
    ELSE Padded(n \div 10, width - 1)
         \o << <<"0", "1", "2", "3", "4", "5", "6", "7", "8", "9">>[(n % 10) + 1] >>

\* datetime.strftime("%Y%m%d_%H%M%S")
strftime(dt) ==
    Padded(dt.year, 4) \o Padded(dt.month, 2) \o Padded(dt.day, 2) \o <<"_">>
    \o Padded(dt.hour, 2) \o Padded(dt.minute, 2) \o Padded(dt.second, 2)

\* s.split(sep) for a one-character separator
RECURSIVE str_split(_, _)
str_split(s, sep) ==
    IF \A i \in 1..Len(s) : s[i] # sep THEN <<s>>
    ELSE LET i == CHOOSE i \in 1..Len(s) :
                     /\ s[i] = sep
                     /\ \A j \in 1..(i - 1) : s[j] # sep
         IN <<SubSeq(s, 1, i - 1)>> \o str_split(SubSeq(s, i + 1, Len(s)), sep)

\* sep.join(parts)
RECURSIVE str_join(_, _)
str_join(sep, parts) ==
    IF parts = << >> THEN << >>
    ELSE IF Len(parts) = 1 THEN parts[1]
    ELSE parts[1] \o <<sep>> \o str_join(sep, Tail(parts))

\* s.replace(old, new) for a non-empty old
RECURSIVE str_replace(_, _, _)
str_replace(s, old, new) ==
    IF Len(s) < Len(old) THEN s
    ELSE IF SubSeq(s, 1, Len(old)) = old
    THEN new \o str_replace(SubSeq(s, Len(old) + 1, Len(s)), old, new)
    ELSE <<s[1]>> \o str_replace(Tail(s), old, new)

DotJson == <<".", "j", "s", "o", "n">>

\* core: the leftmost \d{8}_\d{6} of the name, or the current time
core_extract_timestamp_from_filename(filename, now) ==
    IF ~re_search(filename).found THEN strftime(now) ELSE re_search(filename).group0

\* legacy: "_".join(filename.split("_")[-2:]).replace(".json", ""); neither
\* split, the slice, join nor replace raises, so the except branch is dead
legacy_extract_timestamp_from_filename(filename, now) ==
    LET parts   == str_split(filename, "_")
        LastTwo == SubSeq(parts, IF Len(parts) > 2 THEN Len(parts) - 1 ELSE 1, Len(parts))
    IN str_replace(str_join("_", LastTwo), DotJson, << >>)

\* f"analyzed_{timestamp}.json"
output_filename_for(timestamp) == <<"a", "n", "a", "l", "y", "z", "e", "d", "_">> \o timestamp \o DotJson

\* names of input files (os.path.basename of the path)
FileNames ==
    << <<"r", "e", "d", "d", "i", "t", "_", "h", "o", "w", "_", "d", "o", "_", "i", "_", "r", "e", "s", "u", "l", "t", "s", "_", "2", "0", "2", "5", "0", "4", "0", "4", "_", "1", "1", "3", "4", "5", "9", ".", "j", "s", "o", "n">>,
       <<"i", "n", "v", "a", "l", "i", "d", "_", "f", "i", "l", "e", "n", "a", "m", "e", ".", "j", "s", "o", "n">>,
       <<"a", "n", "a", "l", "y", "z", "e", "d", "_", "2", "0", "2", "5", "0", "4", "0", "4", "_", "1", "1", "3", "4", "5", "9", ".", "j", "s", "o", "n">> >>

\* readings of datetime.now()
Clocks ==
    { [year |-> 2026, month |-> 11, day |-> 4, hour |-> 4, minute |-> 5, second |-> 9],
      [year |-> 2025, month |-> 4, day |-> 4, hour |-> 11, minute |-> 34, second |-> 59] }

\* output_filename = f"analyzed_{timestamp}.json", with the timestamp the
\* module extracts from the input file's name, for each name and clock reading
output_filenames ==
    [m \in {"legacy", "core"} |->
        [n \in {FileNames[i] : i \in DOMAIN FileNames} |->
            [now \in Clocks |->
                output_filename_for(IF m = "legacy"
                                    THEN legacy_extract_timestamp_from_filename(n, now)
                                    ELSE core_extract_timestamp_from_filename(n, now))]]]

\* file texts: text that is no JSON (or empty), or an array of posts
BadFile(form)  == [form |-> form, posts |-> << >>]
PostsFile(ps)  == [form |-> "array", posts |-> ps]
FileTexts ==
    {BadFile("empty"), BadFile("garbage")} \cup {PostsFile(ps) : ps \in SeqsUpTo(Posts, MaxBatch)}

\* a file of the raw directory
Named(n, f) == [name |-> n, dir |-> "raw", form |-> f.form, posts |-> f.posts]

\* input files: a path (directory and name) and a text; the last one is an
\* output file of an earlier run, in ANALYZED_DATA_DIR
InputFiles ==
    {Named(FileNames[1], f) : f \in FileTexts} \cup
    {Named(FileNames[2], f) :
        f \in {g \in FileTexts : Len(g.posts) = 0 \/ (Len(g.posts) = 1 /\ g.posts[1].id = <<"p3">>)}} \cup
    {[Named(FileNames[3], f) EXCEPT !.dir = "analyzed"] :
        f \in {g \in FileTexts : Len(g.posts) = 1 /\ g.posts[1].id = <<"p3">>}}

\* output_path = os.path.join(ANALYZED_DATA_DIR, output_filename)
output_path == [dir |-> "analyzed", name |-> output_filename]

\* the answers the service gives during a file run
FileOutcomes ==
    { SvcReturn(ObjectText(<<Member("is_question", Lex("true", 0, << >>)),
                             Member("confidence_score", Lex("number", 9, << >>)),
                             Member("category", Lex("string", 0, <<"tech">>)),
                             Member("reasoning", Lex("string", 0, <<"asks for help">>))>>)),
      SvcReturn(ObjectText(<<Member("is_question", Lex("true", 0, << >>)),
                             Member("confidence_score", Lex("number", 9, << >>))>>)),
      SvcReturn(ObjectText(<<Member("is_question", Lex("true", 0, << >>)),
                             Member("confidence_score", Lex("number", 15, << >>)),
                             Member("category", Lex("string", 0, << >>)),
                             Member("reasoning", Lex("string", 0, <<"very sure">>))>>)),
      SvcReturn(GarbageText),
      SvcRaise("RateLimitError", <<"Rate limit exceeded">>) }

\* mutant of AnalyzeFileLoad: load_reddit_data catches the decoding error and
\* returns an empty list
AnalyzeFileLoad_Lenient(file) ==
    /\ pc = "idle"
    /\ input_file' = file
    /\ output_filename' = << >>
    /\ served' = << >>
    /\ artifact' = NoFile
    /\ analyzed_posts' = << >>
    /\ idx' = 1
    /\ pc' = IF Len(file.posts) = 0 THEN "write" ELSE "loop"
    /\ fileExc' = ""
    /\ posts' = file.posts
    /\ UNCHANGED <<module, cache, written, last, cacheOp, nSaves>>
    /\ UNCHANGED otherVars

\* posts = load_reddit_data(input_file); analyzed_posts = []
AnalyzeFileLoad(file) ==
    /\ pc = "idle"
    /\ input_file' = file
    /\ output_filename' = << >>
    /\ served' = << >>
    /\ artifact' = NoFile
    /\ analyzed_posts' = << >>
    /\ idx' = 1
    /\ IF file.form # "array"
       THEN /\ pc' = "raised"
            /\ fileExc' = "JSONDecodeError"
            /\ posts' = << >>
       ELSE /\ pc' = IF Len(file.posts) = 0 THEN "write" ELSE "loop"
            /\ fileExc' = ""
            /\ posts' = file.posts
    /\ UNCHANGED <<module, cache, written, last, cacheOp, nSaves>>
    /\ UNCHANGED otherVars

\* mutant of AnalyzeFileStep: a post whose service call failed is tried again
AnalyzeFileStep_Retry(svc) ==
    /\ pc = "loop"
    /\ LET post == posts[idx]
           out  == IF module = "legacy"
                   THEN legacy_analyze_post(post, cache, svc)
                   ELSE core_analyze_post(post, cache, svc, FileStack)
       IN /\ Observe(post, IF module = "legacy" THEN << >> ELSE FileStack, svc, out)
          /\ served' = Append(served, [called |-> out.called, svc |-> svc])
          /\ IF out.ret = "raised" \/ svc.exc # ""
             THEN UNCHANGED <<pc, fileExc, idx, analyzed_posts>>
             ELSE /\ analyzed_posts' =
                        Append(analyzed_posts,
                               IF module = "legacy"
                               THEN Annotate(post, out.result)
                               ELSE core_annotate(post, out.result))
                  /\ idx' = idx + 1
                  /\ pc' = IF idx = Len(posts) THEN "write" ELSE "loop"
                  /\ UNCHANGED fileExc
    /\ UNCHANGED <<module, cacheOp, nSaves, posts, artifact, input_file, output_filename>>
    /\ UNCHANGED otherVars

\* mutant of AnalyzeFileStep: the loop stays on a post until its service call
\* succeeds
AnalyzeFileStep_Stall(svc) ==
    /\ pc = "loop"
    /\ LET post == posts[idx]
           out  == IF module = "legacy"
                   THEN legacy_analyze_post(post, cache, svc)
                   ELSE core_analyze_post(post, cache, svc, FileStack)
       IN /\ Observe(post, IF module = "legacy" THEN << >> ELSE FileStack, svc, out)
          /\ IF out.ret = "raised" \/ svc.exc # ""
             THEN UNCHANGED <<pc, fileExc, idx, analyzed_posts, served>>
             ELSE /\ served' = Append(served, [called |-> out.called, svc |-> svc])
                  /\ analyzed_posts' =
                        Append(analyzed_posts,
                               IF module = "legacy"
                               THEN Annotate(post, out.result)
                               ELSE core_annotate(post, out.result))
                  /\ idx' = idx + 1
                  /\ pc' = IF idx = Len(posts) THEN "write" ELSE "loop"
                  /\ UNCHANGED fileExc
    /\ UNCHANGED <<module, cacheOp, nSaves, posts, artifact, input_file, output_filename>>
    /\ UNCHANGED otherVars

\* one iteration of `for post in posts`
AnalyzeFileStep(svc) ==
    /\ pc = "loop"
    /\ LET post == posts[idx]
           out  == IF module = "legacy"
                   THEN legacy_analyze_post(post, cache, svc)
                   ELSE core_analyze_post(post, cache, svc, FileStack)
       IN /\ Observe(post, IF module = "legacy" THEN << >> ELSE FileStack, svc, out)
          /\ served' = Append(served, [called |-> out.called, svc |-> svc])
          /\ IF out.ret = "raised"
             THEN /\ pc' = "raised"
                  /\ fileExc' = out.exc
                  /\ UNCHANGED <<idx, analyzed_posts>>
             ELSE /\ analyzed_posts' =
                        Append(analyzed_posts,
                               IF module = "legacy"
                               THEN Annotate(post, out.result)
                               ELSE core_annotate(post, out.result))
                  /\ idx' = idx + 1
                  /\ pc' = IF idx = Len(posts) THEN "write" ELSE "loop"
                  /\ UNCHANGED fileExc
    /\ UNCHANGED <<module, cacheOp, nSaves, posts, artifact, input_file, output_filename>>
    /\ UNCHANGED otherVars

\* mutant of AnalyzeFileWrite: a failed write is swallowed and the path returned
AnalyzeFileWrite_Swallow(io_ok, now) ==
    /\ pc = "write"
    /\ pc' = "done"
    /\ output_filename' = output_filenames[module][input_file.name][now]
    /\ artifact' = IF io_ok THEN File(analyzed_posts) ELSE artifact
    /\ UNCHANGED <<module, cache, written, last, cacheOp, nSaves,
                   posts, idx, analyzed_posts, served, fileExc, input_file>>
    /\ UNCHANGED otherVars

\* timestamp = extract_timestamp_from_filename(os.path.basename(input_file));
\* with open(output_path, "w") as f: json.dump(analyzed_posts, f); return output_path
AnalyzeFileWrite(io_ok, now) ==
    /\ pc = "write"
    /\ output_filename' = output_filenames[module][input_file.name][now]
    /\ IF io_ok
       THEN /\ artifact' = File(analyzed_posts)
            /\ pc' = "done"
            /\ UNCHANGED fileExc
       ELSE /\ pc' = "raised"
            /\ fileExc' = "PermissionError"
            /\ UNCHANGED artifact
    /\ UNCHANGED <<module, cache, written, last, cacheOp, nSaves,
                   posts, idx, analyzed_posts, served, input_file>>
    /\ UNCHANGED otherVars

\* the run is over (path returned or exception propagated); the next may start
AnalyzeFileExit ==
    /\ pc \in {"done", "raised"}
    /\ pc' = "idle"
    /\ UNCHANGED <<module, cache, written, last, cacheOp, nSaves,
                   posts, idx, analyzed_posts, served, artifact, fileExc,
                   input_file, output_filename>>
    /\ UNCHANGED otherVars

NextFile ==
    \/ \E file \in InputFiles : AnalyzeFileLoad(file)
    \/ \E svc \in FileOutcomes : AnalyzeFileStep(svc)
    \/ \E io_ok \in BOOLEAN, now \in Clocks : AnalyzeFileWrite(io_ok, now)
    \/ AnalyzeFileExit

SpecFile == Init /\ [][NextFile]_vars

\* one run of analyze_file on a file of the raw directory
NextRun ==
    \/ \E file \in {g \in InputFiles : g.name = FileNames[1]} : AnalyzeFileLoad(file)
    \/ \E svc \in FileOutcomes : AnalyzeFileStep(svc)
    \/ \E io_ok \in BOOLEAN, now \in Clocks : AnalyzeFileWrite(io_ok, now)

\* the run with a service whose calls end and a file system whose writes
\* end: a started iteration and the final write are eventually carried out
SpecRun ==
    /\ Init /\ [][NextRun]_vars
    /\ WF_vars(\E svc \in FileOutcomes : AnalyzeFileStep(svc))
    /\ WF_vars(\E io_ok \in BOOLEAN, now \in Clocks : AnalyzeFileWrite(io_ok, now))

\* direct calls of the two cache functions
NextCache ==
    \/ \E k \in CacheKeys, v \in Payloads : SaveToCache(k, v)
    \/ \E k \in CacheKeys : GetCachedAnalysis(k)

SpecCache == Init /\ [][NextCache]_vars

\* a caller calls create_cache_key(text)
CreateCacheKey(text) ==
    /\ pc = "idle"
    /\ Len(keyCalls) < MaxKeyCalls
    /\ keyCalls' = Append(keyCalls, [text |-> text, key |-> create_cache_key(text)])
    /\ UNCHANGED <<module, cache, written, last, cacheOp, nSaves, digests, fileVars, fetchVars,
                   mainVars, concVars>>

\* direct calls of create_cache_key, in one run after another
NextKey == \E text \in KeyTexts \cup Contents : CreateCacheKey(text)

SpecKey == Init /\ [][NextKey]_vars

\* ------------------------------------------- concurrent access to one entry
\* the bytes json.dump writes for an object: brace, members, brace
OpenBrace  == Member("{", Lex("punct", 0, << >>))
CloseBrace == Member("}", Lex("punct", 0, << >>))

file_bytes(text) == <<OpenBrace>> \o text.members \o <<CloseBrace>>

\* the text json.load finds in the bytes it read
text_of_bytes(bytes) ==
    IF bytes = << >> THEN EmptyText
    ELSE IF /\ Len(bytes) >= 2
            /\ bytes[1] = OpenBrace
            /\ bytes[Len(bytes)] = CloseBrace
            /\ \A i \in 2..(Len(bytes) - 1) : bytes[i].lex.kind # "punct"
         THEN ObjectText(SubSeq(bytes, 2, Len(bytes) - 1))
         ELSE GarbageText

\* write(data) on a descriptor at offset 0 of a file holding bytes
write_at_start(bytes, data) ==
    IF Len(data) >= Len(bytes) THEN data
    ELSE data \o SubSeq(bytes, Len(data) + 1, Len(bytes))

\* payloads of the concurrent writers, of different lengths
ConcPayloads ==
    {json_load(t) : t \in GoodTexts} \cup {[k \in {"test"} |-> PyStr(<<"data">>)]}

\* the entry an earlier, finished save left behind
SeedPayload == [k \in {"test"} |-> PyStr(<<"old">>)]

\* two processes enter save_to_cache(key, a1) and save_to_cache(key, a2) and
\* a third get_cached_analysis(key); seeded: the file exists already
ConcStart(a1, a2, seeded) ==
    /\ pc = "idle"
    /\ entry = "none"
    /\ reader.pc = "idle"
    /\ \A w \in Writers : writers[w].pc = "idle"
    /\ writers' = [w \in Writers |-> [pc |-> "start", payload |-> IF w = 1 THEN a1 ELSE a2]]
    /\ reader' = [pc |-> "start", out |-> NotFound]
    /\ cache_file' = IF seeded
                     THEN [exists |-> TRUE, bytes |-> file_bytes(json_dump(SeedPayload))]
                     ELSE NoBytes
    /\ UNCHANGED <<closed, analyzerVars, fileVars, keyVars, fetchVars, mainVars>>

\* save_to_cache: open(cache_file, "w") creates or truncates the file
SaveOpen(w) ==
    /\ writers[w].pc = "start"
    /\ writers' = [writers EXCEPT ![w].pc = "opened"]
    /\ cache_file' = [exists |-> TRUE, bytes |-> << >>]
    /\ UNCHANGED <<reader, closed, analyzerVars, fileVars, keyVars, fetchVars, mainVars>>

\* save_to_cache: json.dump fills the buffer; leaving the with block flushes
\* it in one write at the descriptor's offset 0 and closes the file
SaveClose(w) ==
    /\ writers[w].pc = "opened"
    /\ writers' = [writers EXCEPT ![w].pc = "closed"]
    /\ cache_file' = [exists |-> TRUE,
                      bytes |-> write_at_start(cache_file.bytes,
                                               file_bytes(json_dump(writers[w].payload)))]
    /\ closed' = Append(closed, w)
    /\ UNCHANGED <<reader, analyzerVars, fileVars, keyVars, fetchVars, mainVars>>

\* get_cached_analysis: os.path.exists(cache_file)
GetExists ==
    /\ reader.pc = "start"
    /\ reader' = IF cache_file.exists THEN [pc |-> "exists", out |-> NotFound]
                 ELSE [pc |-> "done", out |-> NotFound]
    /\ UNCHANGED <<cache_file, writers, closed, analyzerVars, fileVars, keyVars, fetchVars, mainVars>>

\* get_cached_analysis: open the file and json.load(f)
GetLoad ==
    /\ reader.pc = "exists"
    /\ LET text == text_of_bytes(cache_file.bytes)
       IN  reader' = [pc |-> "done",
                      out |-> IF JsonRaises(text) THEN LoadError(JsonErrorName(text))
                              ELSE Found(json_load(text))]
    /\ UNCHANGED <<cache_file, writers, closed, analyzerVars, fileVars, keyVars, fetchVars, mainVars>>

NextConc ==
    \/ \E a1, a2 \in ConcPayloads, seeded \in BOOLEAN : ConcStart(a1, a2, seeded)
    \/ \E w \in Writers : SaveOpen(w)
    \/ \E w \in Writers : SaveClose(w)
    \/ GetExists
    \/ GetLoad

SpecConc == Init /\ [][NextConc]_vars

\* ------------------------------------------------------------ the fetcher
SEARCH_LIMIT == 100

\* a submission as the Reddit client gives it (the attributes followed here)
Submission(id, title, over_18) == [id |-> id, title |-> title, over_18 |-> over_18]

\* what a search can match: short listings of three submissions, the second
\* one flagged, and long listings at and above the limit with every third
\* submission flagged
Listings ==
    LET Submissions == { Submission(<<"s1">>, <<"How do I cook rice?">>, FALSE),
                         Submission(<<"s2">>, <<"How do I hide this?">>, TRUE),
                         Submission(<<"s3">>, <<"How do I fix my wifi?">>, FALSE) }
        Long(n) == [i \in 1..n |-> Submission(<<"t", ToString(i)>>, <<"How do I">>, i % 3 = 0)]
    IN  SeqsUpTo(Submissions, MaxListing)
        \cup {Long(n) : n \in {SEARCH_LIMIT, SEARCH_LIMIT + 1, SEARCH_LIMIT + 50}}

\* list(subreddit.search(search_phrase, sort=SEARCH_SORT, limit=limit)): the
\* client yields the matches in order and stops at limit
subreddit_search(listing, limit) ==
    SubSeq(listing, 1, IF Len(listing) < limit THEN Len(listing) ELSE limit)

\* mutant of search_reddit_posts: the flagged submissions are not filtered out
search_reddit_posts_Unfiltered(listing) ==
    LET results == subreddit_search(listing, SEARCH_LIMIT)
    IN  [search_results |-> results, posts |-> results]

\* search_reddit_posts: the list the search gave, and the list returned,
\* [post for post in search_results if not post.over_18]
search_reddit_posts(listing) ==
    LET results == subreddit_search(listing, SEARCH_LIMIT)
    IN  [search_results |-> results,
         posts |-> SelectSeq(results, LAMBDA post : ~post.over_18)]

\* save_search_results: the list json.dump writes, one dict per submission
save_search_results(results) ==
    [i \in 1..Len(results) |->
        [id |-> results[i].id, title |-> results[i].title, over_18 |-> results[i].over_18]]

\* posts = search_reddit_posts(reddit, SEARCH_PHRASE)
SearchRedditPosts(listing) ==
    /\ fetchPc = "idle"
    /\ pc = "idle"
    /\ entry = "none"
    /\ search_results' = search_reddit_posts(listing).search_results
    /\ sfw_posts' = search_reddit_posts(listing).posts
    /\ fetchPc' = "searched"
    /\ UNCHANGED <<results_file, analyzerVars, fileVars, keyVars, mainVars, concVars>>

\* save_search_results(posts, OUTPUT_DIR)
SaveSearchResults ==
    /\ fetchPc = "searched"
    /\ results_file' = File(save_search_results(sfw_posts))
    /\ fetchPc' = "saved"
    /\ UNCHANGED <<search_results, sfw_posts, analyzerVars, fileVars, keyVars, mainVars, concVars>>

NextFetch ==
    \/ \E listing \in Listings : SearchRedditPosts(listing)
    \/ SaveSearchResults

SpecFetch == Init /\ [][NextFetch]_vars

\* --------------------------------------------------- the entry points run
\* the process is started: python analyze_problems.py / fetch_problems.py /
\* run_pipeline.py with a command line, in an environment
MainStart(e, a, environ) ==
    /\ entry = "none"
    /\ pc = "idle"
    /\ e # "run_pipeline" => ~a.fetch_only /\ ~a.analyze_only
    /\ e = "fetch_main" => ~a.file
    /\ entry' = e
    /\ args' = a
    /\ env' = environ
    /\ mainPc' = IF e = "analyze_main" THEN "setup"
                 ELSE IF e = "fetch_main" THEN "fetch_env" ELSE "validate"
    /\ UNCHANGED <<reddit_calls, exit_code, stages, file_to_analyze,
                   analyzerVars, fileVars, keyVars, fetchVars, concVars>>

\* mutant of PipelineValidate: --file is accepted without --analyze-only
PipelineValidate_FileAnywhere ==
    /\ mainPc = "validate"
    /\ IF args.fetch_only /\ args.analyze_only
       THEN mainPc' = "exit" /\ exit_code' = "1"
       ELSE mainPc' = "setup" /\ UNCHANGED exit_code
    /\ UNCHANGED <<entry, args, env, reddit_calls, stages, file_to_analyze,
                   analyzerVars, fileVars, keyVars, fetchVars, concVars>>

\* run_pipeline.main: the checks on the flags
PipelineValidate ==
    /\ mainPc = "validate"
    /\ IF (args.fetch_only /\ args.analyze_only) \/ (args.file /\ ~args.analyze_only)
       THEN mainPc' = "exit" /\ exit_code' = "1"
       ELSE mainPc' = "setup" /\ UNCHANGED exit_code
    /\ UNCHANGED <<entry, args, env, reddit_calls, stages, file_to_analyze,
                   analyzerVars, fileVars, keyVars, fetchVars, concVars>>

\* setup_directories() in run_pipeline.main, create_directories() in the
\* analyzer's main: the data directories are made
MainSetup ==
    /\ mainPc = "setup"
    /\ stages' = Append(stages, IF entry = "run_pipeline" THEN "setup_directories"
                                ELSE "create_directories")
    /\ mainPc' = IF entry = "analyze_main" THEN "load_env"
                 ELSE IF ~args.analyze_only THEN "fetch_env" ELSE "select"
    /\ UNCHANGED <<entry, args, env, reddit_calls, exit_code, file_to_analyze,
                   analyzerVars, fileVars, keyVars, fetchVars, concVars>>

\* fetch_problems.main is entered: credentials = load_env_vars()
FetchLoadEnv ==
    /\ mainPc = "fetch_env"
    /\ stages' = Append(stages, "fetch_main")
    /\ IF fetch_load_env_vars(env) # ""
       THEN /\ mainPc' = AfterFetch(fetch_main_result(TRUE)).pc
            /\ exit_code' = AfterFetch(fetch_main_result(TRUE)).code
       ELSE mainPc' = "fetch_search" /\ UNCHANGED exit_code
    /\ UNCHANGED <<entry, args, env, reddit_calls, file_to_analyze,
                   analyzerVars, fileVars, keyVars, fetchVars, concVars>>

\* fetch_problems.main: search_reddit_posts and save_search_results; the
\* search is a network call, which may fail
FetchSearch(failed) ==
    /\ mainPc = "fetch_search"
    /\ reddit_calls' = reddit_calls + 1
    /\ mainPc' = AfterFetch(fetch_main_result(failed)).pc
    /\ exit_code' = AfterFetch(fetch_main_result(failed)).code
    /\ UNCHANGED <<entry, args, env, stages, file_to_analyze,
                   analyzerVars, fileVars, keyVars, fetchVars, concVars>>

\* run_pipeline.process_fetch after fetch_problems.main() returned 0: found
\* says whether the fetch output directory holds a JSON file; the latest one
\* is copied to the raw directory
ProcessFetch(found) ==
    /\ mainPc = "listing"
    /\ IF ~found
       THEN /\ mainPc' = "exit"
            /\ exit_code' = "1"
            /\ UNCHANGED <<stages, file_to_analyze>>
       ELSE /\ stages' = Append(stages, "copy")
            /\ IF args.fetch_only
               THEN mainPc' = "exit" /\ exit_code' = "0" /\ UNCHANGED file_to_analyze
               ELSE mainPc' = "load_env" /\ file_to_analyze' = "raw_copy" /\ UNCHANGED exit_code
    /\ UNCHANGED <<entry, args, env, reddit_calls, analyzerVars, fileVars, keyVars, fetchVars, concVars>>

\* run_pipeline.get_file_to_analyze: found says whether --file exists, or
\* whether the raw directory holds a JSON file
PipelineGetFile(found) ==
    /\ mainPc = "select"
    /\ entry = "run_pipeline"
    /\ IF found
       THEN /\ mainPc' = "load_env"
            /\ file_to_analyze' = IF args.file THEN "file" ELSE "latest"
            /\ UNCHANGED exit_code
       ELSE mainPc' = "exit" /\ exit_code' = "1" /\ UNCHANGED file_to_analyze
    /\ UNCHANGED <<entry, args, env, reddit_calls, stages, analyzerVars, fileVars, keyVars, fetchVars, concVars>>

\* load_env_vars() and initialize_openai_client(...) of the analyzer, in its
\* main and in run_pipeline.main
MainLoadEnv ==
    /\ mainPc = "load_env"
    /\ IF load_env_vars(env) # ""
       THEN /\ mainPc' = "exit"
            /\ exit_code' = "1"
            /\ stages' = Append(stages, "load_env_vars")
       ELSE /\ mainPc' = IF entry = "analyze_main" THEN "select" ELSE "analyze"
            /\ stages' = stages \o <<"load_env_vars", "initialize_openai_client">>
            /\ UNCHANGED exit_code
    /\ UNCHANGED <<entry, args, env, reddit_calls, file_to_analyze,
                   analyzerVars, fileVars, keyVars, fetchVars, concVars>>

\* the analyzer's main determines the input file
AnalyzeMainSelect(found) ==
    /\ mainPc = "select"
    /\ entry = "analyze_main"
    /\ IF found
       THEN /\ mainPc' = "analyze"
            /\ file_to_analyze' = IF args.file THEN "file" ELSE "latest"
            /\ UNCHANGED exit_code
       ELSE mainPc' = "exit" /\ exit_code' = "1" /\ UNCHANGED file_to_analyze
    /\ UNCHANGED <<entry, args, env, reddit_calls, stages, analyzerVars, fileVars, keyVars, fetchVars, concVars>>

\* mutant of MainReturn: main returns 0 whatever analyze_file did
MainReturn_AlwaysZero ==
    /\ mainPc = "analyze"
    /\ pc \in {"done", "raised"}
    /\ mainPc' = "exit"
    /\ exit_code' = "0"
    /\ UNCHANGED <<entry, args, env, reddit_calls, stages, file_to_analyze,
                   analyzerVars, fileVars, keyVars, fetchVars, concVars>>

\* analyze_file has returned or raised: return 0, or except Exception: return 1
MainReturn ==
    /\ mainPc = "analyze"
    /\ pc \in {"done", "raised"}
    /\ mainPc' = "exit"
    /\ exit_code' = IF pc = "done" THEN "0" ELSE "1"
    /\ UNCHANGED <<entry, args, env, reddit_calls, stages, file_to_analyze,
                   analyzerVars, fileVars, keyVars, fetchVars, concVars>>

\* the files an entry point finds on disk
MainFiles ==
    { Named(FileNames[1], PostsFile(<<p>>)) : p \in {q \in Posts : q.id = <<"p1">>} }
    \cup { Named(FileNames[1], BadFile("garbage")) }

NextMain ==
    \/ \E e \in {"analyze_main", "fetch_main", "run_pipeline"}, a \in CommandLines,
          environ \in Environments :
          MainStart(e, a, environ)
    \/ PipelineValidate
    \/ MainSetup
    \/ FetchLoadEnv
    \/ \E failed \in BOOLEAN : FetchSearch(failed)
    \/ \E found \in BOOLEAN : ProcessFetch(found)
    \/ \E found \in BOOLEAN : PipelineGetFile(found)
    \/ MainLoadEnv
    \/ \E found \in BOOLEAN : AnalyzeMainSelect(found)
    \/ mainPc = "analyze" /\ input_file = NoInput /\ \E file \in MainFiles : AnalyzeFileLoad(file)
    \/ mainPc = "analyze" /\ \E svc \in FileOutcomes : AnalyzeFileStep(svc)
    \/ mainPc = "analyze" /\ \E io_ok \in BOOLEAN, now \in Clocks : AnalyzeFileWrite(io_ok, now)
    \/ MainReturn

SpecMain == Init /\ [][NextMain]_vars

\* ------------------------------------------------ reading the observers
IsCall  == last.op = "analyze_post"
LastKey == create_cache_key(post_content(last.post))

HitBefore == IsCall /\ LastKey \in DOMAIN last.before

ErrorUnset(r) == "error" \in DOMAIN r => r.error = None
ErrorSet(r)   == "error" \in DOMAIN r /\ r.error # None /\ r.error # << >>

\* the four decision fields of a result equal those of a payload
\* (category defaults to "" when the payload has none)
MatchesPayload(r, d) ==
    /\ {"is_question", "confidence_score", "reasoning"} \subseteq DOMAIN d
    /\ d["is_question"] = PyBool(r.is_question)
    /\ d["confidence_score"] = PyFloat(r.confidence_score)
    /\ DictGet(d, "category", PyStr(<< >>)) = PyStr(r.category)
    /\ d["reasoning"] = PyStr(r.reasoning)

\* ------------------------------------------------------------------ claims

\* C1: for every post whose fingerprint already has an entry in the cache,
\* analyze_post calls the service zero times and returns a result whose four
\* decision fields equal the cached payload, with the post's own id and no error.
C1_CacheShortCircuit ==
    HitBefore =>
        /\ ~last.out.called
        /\ last.out.ret = "returned"
        /\ last.out.result.post_id = last.post.id
        /\ MatchesPayload(last.out.result, json_load(last.before[LastKey]))
        /\ ErrorUnset(last.out.result)

\* C2: on a cache miss where the service returns a well-formed decision
\* object, analyze_post returns the post's id, the four fields of the response
\* and no error, and the cache then holds those four fields under the
\* post's fingerprint.
C2_SuccessPath ==
    (IsCall /\ ~HitBefore /\ last.svc.exc = "" /\ last.svc.content \in GoodTexts) =>
        /\ last.out.ret = "returned"
        /\ last.out.result.post_id = last.post.id
        /\ MatchesPayload(last.out.result, json_load(last.svc.content))
        /\ ErrorUnset(last.out.result)
        /\ LastKey \in DOMAIN last.out.cache
        /\ MatchesPayload(last.out.result, json_load(last.out.cache[LastKey]))

\* C3: whenever analyze_post returns a failure-default result, the cache
\* after the call equals the cache before it.
C3_DegradedNeverCached ==
    (IsCall /\ last.out.branch = "degraded") => last.out.cache = last.before

\* C4: when the same post is analyzed again after a classification of it
\* succeeded, the second call makes no service call and returns the same
\* analysis (one service call over both).
C4_Resumable ==
    [][ ( /\ IsCall
          /\ last.out.branch = "ok"
          /\ last' # last
          /\ last'.post = last.post )
        => ( /\ ~last'.out.called
             /\ last'.out.ret = "returned"
             /\ last'.out.result = last.out.result ) ]_vars

\* C6: every result analyze_post returns has 0.0 <= confidence_score <= 1.0.
C6_RangeInvariant ==
    (IsCall /\ last.out.ret = "returned") =>
        /\ last.out.result.confidence_score >= 0
        /\ last.out.result.confidence_score <= 10

\* C9: every failure-default result has is_question false, confidence 0.0,
\* category "", a non-empty reasoning, and error equal to that reasoning.
C9_DegradedShape ==
    (IsCall /\ last.out.branch = "degraded") =>
        /\ last.out.result.is_question = FALSE
        /\ last.out.result.confidence_score = 0
        /\ last.out.result.category = << >>
        /\ last.out.result.reasoning # << >>
        /\ "error" \in DOMAIN last.out.result
        /\ last.out.result.error = last.out.result.reasoning

\* the callers for which the code re-raises (strict mode)
StrictCallers == {"test_analyze_post_rate_limit", "test_analyze_post_auth_error"}
OptedIn(stack) == stack[1] \in StrictCallers

IsCoreCall == IsCall /\ module = "core"

\* the service failures C7 lists
ServiceFailure(svc) ==
    \/ svc.exc # ""
    \/ svc.content.form # "object"
    \/ MissingKey(json_load(svc.content)) # ""

\* C7: in non-strict mode analyze_post (core) never raises for a service
\* failure: for a raised rate limit, authentication, connection, API or other
\* error, an empty or unparseable content, or a missing field, it returns a
\* result, and that result has error set.
C7_NonStrictNeverRaises ==
    (IsCoreCall /\ ~OptedIn(last.stack) /\ ServiceFailure(last.svc)) =>
        /\ last.out.ret = "returned"
        /\ ErrorSet(last.out.result)

C7_Witness ==
    /\ IsCoreCall
    /\ ~OptedIn(last.stack)
    /\ last.stack[1] = "helper"
    /\ last.svc.exc = "RateLimitError"
    /\ last.out.ret = "returned"
    /\ last.out.result.error = <<"Rate limit exceeded: ", "Rate limit exceeded">>

\* C8: analyze_post (core) propagates a failure only to a caller that opted
\* into strict mode and only a rate-limit or authentication failure; for a
\* caller that has not opted in the same failures give a degraded result.
C8_StrictMode ==
    IsCoreCall =>
        /\ last.out.ret = "raised" =>
              /\ OptedIn(last.stack)
              /\ last.svc.exc \in {"RateLimitError", "AuthenticationError"}
              /\ last.out.exc = last.svc.exc
        /\ (last.svc.exc \in {"RateLimitError", "AuthenticationError"} /\ ~OptedIn(last.stack)) =>
              /\ last.out.branch = "degraded"
              /\ ErrorSet(last.out.result)

C8_Witness ==
    /\ IsCoreCall
    /\ OptedIn(last.stack)
    /\ last.out.ret = "raised"
    /\ last.out.exc = "AuthenticationError"

\* C10: get_cached_analysis(k) returns exactly the payload last given to
\* save_to_cache(k, .), also after the same payload was saved twice, and
\* returns None, without raising, for a key that was never saved.
C10_CacheRoundTrip ==
    cacheOp.op = "get_cached_analysis" =>
        IF cacheOp.key \in DOMAIN written
        THEN cacheOp.out = Found(written[cacheOp.key])
        ELSE cacheOp.out = NotFound

C10_Witness ==
    /\ cacheOp.op = "get_cached_analysis"
    /\ cacheOp.repeat
    /\ cacheOp.key \in DOMAIN written
    /\ Truthy(written[cacheOp.key])
    /\ cacheOp.out = Found(written[cacheOp.key])

\* the service failed for item k of the run / answered it with a decision
ItemFailed(k)    == ServiceFailure(served[k].svc)
ItemSucceeded(k) == served[k].svc.exc = "" /\ served[k].svc.content \in GoodTexts

OneFailure ==
    /\ Len(served) = Len(posts)
    /\ \E i \in 1..Len(posts) :
          /\ ItemFailed(i)
          /\ \A k \in 1..Len(posts) : k # i => ItemSucceeded(k)

\* C5: when classification of exactly one item of a batch fails and the
\* others succeed, analyze_file (core) does not stop in the loop, and the
\* artifact it writes has one annotated post per input post in input order,
\* the failed item with a non-empty error and every other with error null.
C5_FailureIsolation ==
    (module = "core" /\ OneFailure) =>
        /\ pc \in {"write", "done", "raised", "idle"}
        /\ fileExc \in {"", "PermissionError"}
        /\ Len(analyzed_posts) = Len(posts)
        /\ artifact.exists =>
              /\ Len(artifact.content) = Len(posts)
              /\ \A k \in 1..Len(posts) :
                    /\ \A f \in DOMAIN posts[k] : artifact.content[k][f] = posts[k][f]
                    /\ artifact.content[k]["analysis"].post_id = posts[k].id
                    /\ ItemFailed(k) =>
                          /\ artifact.content[k]["analysis"].error # None
                          /\ artifact.content[k]["analysis"].error # << >>
                    /\ ItemSucceeded(k) => artifact.content[k]["analysis"].error = None

C5_Witness ==
    /\ module = "core"
    /\ pc = "done"
    /\ Len(posts) = 2
    /\ OneFailure
    /\ ItemFailed(1)
    /\ artifact.exists
    /\ artifact.content[1]["analysis"].error = <<"Rate limit exceeded: ", "Rate limit exceeded">>
    /\ artifact.content[2]["analysis"].error = None

\* two texts are the same Python string
SameText(t1, t2) == encode_utf8(t1) = encode_utf8(t2)

\* C11: create_cache_key is a function of its text alone: two calls with
\* equal texts return equal keys, two calls with distinct texts (also texts
\* that differ only in letter case or in whitespace) return distinct keys, and
\* every key is a string of 64 hexadecimal digits.
C11_FingerprintDeterminism ==
    \A i, j \in 1..Len(keyCalls) :
        /\ Len(keyCalls[i].key) = 1
        /\ Len(keyCalls[i].key[1]) = 64
        /\ SameText(keyCalls[i].text, keyCalls[j].text) <=> keyCalls[i].key = keyCalls[j].key

C11_Witness ==
    /\ Len(keyCalls) = 3
    /\ keyCalls[1].text = <<"test content">>
    /\ keyCalls[2].text = <<"Test content">>
    /\ keyCalls[3].text = <<"test ", "content">>
    /\ keyCalls[1].key # keyCalls[2].key
    /\ keyCalls[1].key = keyCalls[3].key
    /\ keyCalls[1].key = <<"6ae8a75555209fd6c44157c0aed8016e763ff435a19cf186f76863140143ff72">>
    /\ keyCalls[2].key = <<"9d9595c5d94fb65b824f56e9999527dba9542481580d69feb89056aabaa0aa87">>

\* the keys of a cache payload as the spec defines it
PayloadKeys == {"is_question", "confidence_score", "category", "reasoning"}

\* C12: every cache entry analyze_post writes is an object with exactly the
\* keys is_question, confidence_score, category and reasoning (no post_id, no
\* other field of the post or of the response).
C12_PayloadPostIndependent ==
    (IsCall /\ last.out.cache # last.before) =>
        /\ LastKey \in DOMAIN last.out.cache
        /\ ~JsonRaises(last.out.cache[LastKey])
        /\ DOMAIN json_load(last.out.cache[LastKey]) = PayloadKeys

\* the fields of the nested analysis object
AnalysisKeys == {"post_id", "is_question", "confidence_score", "category", "reasoning", "error"}

\* C13: the artifact analyze_file writes has one element per input post, in
\* input order; element k has every field of post k with its original value
\* and an analysis object with the fields post_id, is_question,
\* confidence_score, category, reasoning, error, whose post_id is post k's id.
C13_OneToOne ==
    artifact.exists =>
        /\ Len(artifact.content) = Len(posts)
        /\ \A k \in 1..Len(posts) :
              /\ \A f \in DOMAIN posts[k] :
                    /\ f \in DOMAIN artifact.content[k]
                    /\ artifact.content[k][f] = posts[k][f]
              /\ DOMAIN artifact.content[k] = DOMAIN posts[k] \cup {"analysis"}
              /\ DOMAIN artifact.content[k]["analysis"] = AnalysisKeys
              /\ artifact.content[k]["analysis"].post_id = posts[k].id

\* C13 on the core module alone
C13_Core == module = "core" => C13_OneToOne

\* C14: in a run of analyze_file the output file is written in one step
\* only, the step after the last post of the batch has been handed to
\* analyze_post, and with the whole batch; when that write fails the run ends
\* with the exception, and a run that returns a path has written the file.
C14_SingleFinalWrite ==
    [][ /\ (artifact' # artifact /\ artifact'.exists) =>
              /\ pc = "write" /\ pc' = "done"
              /\ ~artifact.exists
              /\ Len(served) = Len(posts)
              /\ Len(analyzed_posts) = Len(posts)
              /\ artifact'.content = analyzed_posts
        /\ (pc = "write" /\ pc' # pc) =>
              \/ pc' = "done" /\ artifact'.exists
              \/ pc' = "raised" /\ fileExc' = "PermissionError" /\ ~artifact'.exists
        /\ pc' = "done" => artifact'.exists ]_vars

C14_Witness ==
    /\ pc = "raised"
    /\ fileExc = "PermissionError"
    /\ Len(posts) = 2
    /\ Len(analyzed_posts) = 2
    /\ ~artifact.exists

\* the input file of the current (or latest) run is empty or is no JSON
Corrupt == input_file.form \in {"empty", "garbage"}

\* C15: when the input file is empty or is not valid JSON, analyze_file ends
\* at load time with the decoding exception; in that run analyze_post is never
\* called, the cache is left as it was and no output file is named or written.
C15_FailFast ==
    [][ Corrupt' =>
          /\ pc' \in {"raised", "idle"}
          /\ fileExc' = "JSONDecodeError"
          /\ served' = << >>
          /\ last' = last
          /\ cache' = cache
          /\ written' = written
          /\ output_filename' = << >>
          /\ ~artifact'.exists ]_vars

C15_Witness ==
    /\ pc = "raised"
    /\ input_file.form = "empty"
    /\ fileExc = "JSONDecodeError"
    /\ last.op = "analyze_post"
    /\ served = << >>

\* the substrings of a name that have the shape YYYYMMDD_HHMMSS
EmbeddedTimestamps(name) ==
    {SubSeq(name, i, i + 14) : i \in {j \in 1..Len(name) : MatchesAt(name, j)}}

\* C16: the output file is named analyzed_<timestamp>.json, where <timestamp>
\* is the YYYYMMDD_HHMMSS string embedded in the input file name, and a
\* reading of the clock formatted as YYYYMMDD_HHMMSS when the name embeds none.
C16_OutputNaming ==
    output_filename # << >> =>
        \E ts \in EmbeddedTimestamps(input_file.name) \cup {strftime(c) : c \in Clocks} :
            /\ output_filename = output_filename_for(ts)
            /\ EmbeddedTimestamps(input_file.name) # {} => ts \in EmbeddedTimestamps(input_file.name)

\* C16 on the core module alone
C16_Core == module = "core" => C16_OutputNaming

\* the description prefix of each failure kind the code reports
KindPrefixes == {"Rate limit exceeded: ", "Authentication failed: ", "API error: ",
                 "Unexpected error: "}

\* C19: analyze_post (core) maps a failure of the service call to one kind
\* and the description names it: rate limit, authentication and other
\* service errors by their prefixes, anything else as unexpected, and a
\* connection failure as a kind of its own, none of those four.
C19_FailureTaxonomy ==
    (IsCoreCall /\ last.svc.exc # "" /\ last.out.ret = "returned") =>
        LET kind == last.out.result.error[1]
        IN  /\ ErrorSet(last.out.result)
            /\ last.out.result.reasoning = last.out.result.error
            /\ CASE last.svc.exc = "RateLimitError"      -> kind = "Rate limit exceeded: "
                 [] last.svc.exc = "AuthenticationError" -> kind = "Authentication failed: "
                 [] last.svc.exc = "APIConnectionError"  -> kind \notin KindPrefixes
                 [] last.svc.exc = "APIError"            -> kind = "API error: "
                 [] OTHER                                -> kind = "Unexpected error: "

\* a value of the JSON type the field is declared with
RightType(d, key, type) == key \in DOMAIN d => d[key].type = type

\* the content of a service response is empty, is no JSON object, lacks a
\* required field, or holds a value of another type than its field's
Malformed(content) ==
    \/ content.form # "object"
    \/ MissingKey(json_load(content)) # ""
    \/ ~RightType(json_load(content), "is_question", "bool")
    \/ ~RightType(json_load(content), "confidence_score", "float")
    \/ ~RightType(json_load(content), "category", "str")
    \/ ~RightType(json_load(content), "reasoning", "str")

\* C20: for a malformed content analyze_post (core) returns a degraded
\* result: error is set and the decision fields are the defaults, not values
\* of the response.
C20_MalformedRejected ==
    (IsCoreCall /\ last.svc.exc = "" /\ Malformed(last.svc.content)) =>
        /\ last.out.ret = "returned"
        /\ ErrorSet(last.out.result)
        /\ last.out.result.is_question = FALSE
        /\ last.out.result.confidence_score = 0
        /\ last.out.result.category = << >>

\* C20 for the contents pydantic does not coerce
C20_Uncoerced ==
    (IsCall /\ last.svc.content \notin CoercibleTexts) => C20_MalformedRejected

\* C19 for every failure but a connection failure
C19_Named ==
    (IsCall /\ last.svc.exc # "APIConnectionError") => C19_FailureTaxonomy

\* the environment variables a run needs: the classification key for an
\* analysis, the two social-network credentials for a fetch
Required ==
    CASE entry = "analyze_main" -> {"OPENAI_API_KEY"}
      [] entry = "fetch_main"   -> {"REDDIT_CLIENT_ID", "REDDIT_CLIENT_SECRET"}
      [] entry = "run_pipeline" ->
             (IF args.analyze_only THEN {} ELSE {"REDDIT_CLIENT_ID", "REDDIT_CLIENT_SECRET"})
             \cup (IF args.fetch_only THEN {} ELSE {"OPENAI_API_KEY"})
      [] OTHER -> {}

\* a command line the entry point accepts
ValidArgs == ~(args.fetch_only /\ args.analyze_only) /\ (args.file => args.analyze_only \/ entry = "analyze_main")

CredentialMissing == ValidArgs /\ \E v \in Required : env[v] \in {None, << >>}

\* network calls of the run: searches, and service calls of analyze_post
NoNetworkCall == reddit_calls = 0 /\ \A i \in 1..Len(served) : ~served[i].called

HardFailure == exit_code \in {"1", "raised"}

\* C17: in a run of any entry point in which a required credential is missing
\* or empty, no network call is attempted, neither a search nor a service
\* call, and when the run has ended it has ended in a hard failure.
C17_CredentialsFirst ==
    (entry # "none" /\ CredentialMissing) =>
        /\ NoNetworkCall
        /\ mainPc # "analyze"
        /\ mainPc = "exit" => HardFailure

\* C17 for the runs of one stage: the two mains and the pipeline with
\* --fetch-only or --analyze-only
C17_OneStage ==
    (entry = "run_pipeline" => args.fetch_only \/ args.analyze_only) => C17_CredentialsFirst

\* the payloads that were passed to a put of the shared entry
PutPayloads == {writers[w].payload : w \in Writers} \cup {SeedPayload}

\* C18: with two processes in save_to_cache and one in get_cached_analysis
\* for the same key, the read returns None or a complete payload that was
\* passed to a put, never raises, and when both writers have finished the
\* entry holds the payload of the writer that finished last.
C18_ConcurrentCache ==
    /\ reader.pc = "done" =>
          \/ reader.out = NotFound
          \/ \E a \in PutPayloads : reader.out = Found(a)
    /\ Len(closed) = 2 =>
          /\ cache_file.exists
          /\ text_of_bytes(cache_file.bytes) = json_dump(writers[closed[2]].payload)

\* the flag combinations run_pipeline.main refuses
InvalidFlags == (args.fetch_only /\ args.analyze_only) \/ (args.file /\ ~args.analyze_only)

\* C21: when run_pipeline.main is started with both --fetch-only and
\* --analyze-only, or with --file but without --analyze-only, it returns exit
\* code 1, and in that run no directory is created, no fetch is performed and
\* no post is analyzed.
C21_ExclusiveFlags ==
    (entry = "run_pipeline" /\ InvalidFlags) =>
        /\ mainPc \in {"validate", "exit"}
        /\ mainPc = "exit" => exit_code = "1"
        /\ stages = << >>
        /\ reddit_calls = 0
        /\ served = << >> /\ input_file = NoInput /\ artifact = NoFile

C21_Witness ==
    /\ entry = "run_pipeline"
    /\ args.file /\ ~args.analyze_only /\ ~args.fetch_only
    /\ mainPc = "exit"
    /\ exit_code = "1"

\* the analyzer's main has ended
AnalyzerEnded == entry = "analyze_main" /\ mainPc = "exit"

\* main returned (it did not raise), and 0 exactly when analyze_file ran to
\* completion and wrote its artifact
ReturnsZeroOnlyOnSuccess ==
    /\ exit_code \in {"0", "1"}
    /\ exit_code = "0" <=> (pc = "done" /\ artifact.exists)

Invocations(name) == Cardinality({i \in 1..Len(stages) : stages[i] = name})

\* analyze_file is entered once its input is loaded
AnalyzeFileCalls == IF input_file = NoInput THEN 0 ELSE 1

PipelineRun == entry = "run_pipeline" /\ ~InvalidFlags

\* C25: in run_pipeline.main, with --fetch-only the fetch stage runs once and
\* analyze_file is never invoked; with --analyze-only the fetch stage is never
\* invoked and load_env_vars, initialize_openai_client and analyze_file are
\* each invoked once; with no flag the fetch stage runs first and analyze_file
\* is invoked once afterwards on the fetched file copied into the raw
\* directory. The invocations are those of a run that ended without a handled
\* error; what a mode never invokes it invokes in no run.
C25_StageSelection ==
    PipelineRun =>
        /\ args.fetch_only => AnalyzeFileCalls = 0 /\ Invocations("fetch_main") <= 1
        /\ args.analyze_only => Invocations("fetch_main") = 0 /\ reddit_calls = 0
        /\ (mainPc = "exit" /\ exit_code # "1") =>
              /\ args.fetch_only => Invocations("fetch_main") = 1
              /\ args.analyze_only =>
                    /\ Invocations("load_env_vars") = 1
                    /\ Invocations("initialize_openai_client") = 1
                    /\ AnalyzeFileCalls = 1
              /\ (~args.fetch_only /\ ~args.analyze_only) =>
                    /\ stages = <<"setup_directories", "fetch_main", "copy",
                                  "load_env_vars", "initialize_openai_client">>
                    /\ AnalyzeFileCalls = 1
                    /\ file_to_analyze = "raw_copy"

\* C25 with a fetcher whose main returns 0 on success
C25_Core == module = "core" => C25_StageSelection

\* the step in which the fetch stage of the pipeline fails: load_env_vars of
\* the fetcher raises, the search fails, or no .json file is found afterwards
FetchFails ==
    /\ entry = "run_pipeline"
    /\ \/ FetchLoadEnv /\ fetch_load_env_vars(env) # ""
       \/ FetchSearch(TRUE)
       \/ ProcessFetch(FALSE)

\* C26: in run_pipeline.main without --analyze-only, if the fetch stage
\* reports failure or leaves no .json file in the fetch output directory, main
\* returns a non-zero exit code, no file is copied to the raw directory and
\* analyze_file is never invoked in that run.
C26_FailedFetchStops ==
    [][FetchFails =>
          /\ ~args.analyze_only
          /\ mainPc' = "exit"
          /\ exit_code' = "1"
          /\ Invocations("copy")' = 0
          /\ AnalyzeFileCalls' = 0]_vars

\* the search was sent and the run ended with 1 before anything was copied
C26_Witness ==
    /\ PipelineRun /\ ~args.analyze_only
    /\ reddit_calls = 1
    /\ mainPc = "exit" /\ exit_code = "1"
    /\ stages = <<"setup_directories", "fetch_main">>

\* the positions of the search results that are not flagged
Kept == {i \in 1..Len(search_results) : ~search_results[i].over_18}

\* C23: search_reddit_posts returns exactly those search results whose
\* over_18 flag is false, in the order the search returned them, and never
\* more than SEARCH_LIMIT posts; no post with over_18 true is in the returned
\* list or in a file written by save_search_results from it.
C23_FetchFilter ==
    fetchPc # "idle" =>
        /\ Len(sfw_posts) = Cardinality(Kept)
        /\ \A k \in 1..Len(sfw_posts) :
              sfw_posts[k] = search_results[CHOOSE i \in Kept : Cardinality({j \in Kept : j <= i}) = k]
        /\ Len(sfw_posts) <= SEARCH_LIMIT
        /\ \A k \in 1..Len(sfw_posts) : ~sfw_posts[k].over_18
        /\ results_file.exists =>
              /\ Len(results_file.content) = Len(sfw_posts)
              /\ \A k \in 1..Len(sfw_posts) :
                    /\ results_file.content[k].id = sfw_posts[k].id
                    /\ ~results_file.content[k].over_18

\* the search stopped at the limit, flagged submissions were dropped and the
\* rest was saved
C23_Witness ==
    /\ fetchPc = "saved"
    /\ Len(search_results) = SEARCH_LIMIT
    /\ Len(sfw_posts) > 0 /\ Len(sfw_posts) < Len(search_results)
    /\ results_file.exists

\* the service calls analyze_file has caused in the current run
ServiceCalls == Cardinality({i \in 1..Len(served) : served[i].called})

\* a step in which analyze_file calls analyze_post
Classifies == Len(served') = Len(served) + 1

\* C24: analyze_file classifies the posts strictly one at a time in input
\* order (the call for post k+1 starts only after the result for post k has
\* been appended) and makes at most one service call per post, with no retry
\* after a failure; so a batch of N posts causes at most N service calls.
C24_SequentialSingleAttempt ==
    /\ [](pc # "idle" => (ServiceCalls <= Len(posts) /\ Len(served) <= Len(posts)))
    /\ [][Classifies =>
             /\ last'.post = posts[idx]
             /\ Len(served) = idx - 1
             /\ Len(analyzed_posts) = idx - 1
             /\ \/ pc' = "raised" /\ idx' = idx
                \/ idx' = idx + 1 /\ Len(analyzed_posts') = idx]_vars

\* a batch of two posts, the first call failing, both posts called for once
C24_Witness ==
    /\ module = "core"
    /\ pc = "done"
    /\ Len(posts) = 2 /\ Len(served) = 2
    /\ served[1].called /\ served[1].svc.exc = "RateLimitError"
    /\ served[2].called

\* C27: the cache never evicts or expires: once an entry exists for a
\* fingerprint, an entry for that fingerprint exists in every later state,
\* through analyze_post calls and analyze_file runs; the set of cached
\* fingerprints only grows.
C27_NoEviction == [][DOMAIN cache \subseteq DOMAIN cache']_vars

\* a run on a single post has ended with two fingerprints cached: the other
\* entry is an earlier run's and is still there
C27_Witness ==
    /\ pc = "done"
    /\ Len(posts) = 1
    /\ Cardinality(DOMAIN cache) = 2

\* the path analyze_file was called with
InputPath == [dir |-> input_file.dir, name |-> input_file.name]

\* the input records as they are in the list analyze_file holds: the records
\* of the file, each one still with its own keys and values
PostsUnchanged ==
    (pc # "idle" /\ fileExc # "JSONDecodeError") =>
        /\ posts = input_file.posts
        /\ \A i \in 1..Len(analyzed_posts) :
              /\ "analysis" \in DOMAIN analyzed_posts[i]
              /\ [k \in DOMAIN posts[i] |-> analyzed_posts[i][k]] = posts[i]

\* C28: analyze_post and analyze_file leave every input post record
\* unchanged, same keys and same values, in every outcome; the annotated post
\* is a new object and the input file is not rewritten.
C28_InputsNeverMutated ==
    /\ PostsUnchanged
    /\ artifact.exists => output_path # InputPath

\* the latest call was a legacy analyze_post that wrote a cache entry
WroteEntry == IsCall /\ module = "legacy" /\ last.out.cache # last.before

\* C29: a cache hit never fails: after analyze_post wrote an entry, a later
\* analyze_post call on a post with the same title and body is a hit that
\* returns a result and does not raise; only a payload that makes a valid
\* result is written.
C29_HitNeverFails ==
    /\ [](WroteEntry => last.out.branch = "ok")
    /\ [][ ( /\ WroteEntry
             /\ last' # last
             /\ post_content(last'.post) = post_content(last.post) )
           => ( /\ last'.out.ret = "returned"
                /\ ~last'.out.called ) ]_vars

\* C29 for the entries a successful classification wrote
C29_AfterSuccess ==
    [][ ( /\ WroteEntry
          /\ last.out.branch = "ok"
          /\ last' # last
          /\ post_content(last'.post) = post_content(last.post) )
        => ( /\ last'.out.ret = "returned"
             /\ ~last'.out.called ) ]_vars

\* analyze_file is running / has ended
Running  == pc \in {"loop", "write"}
Finished == pc \in {"done", "raised"}

\* C30: for every finite input batch, with service calls that end,
\* analyze_file eventually finishes, either returning the output path after
\* processing every post exactly once or raising; it never returns a path
\* part-way through the batch.
C30_Termination ==
    /\ Running ~> Finished
    /\ [](pc = "done" =>
            /\ Len(analyzed_posts) = Len(posts)
            /\ Len(served) = Len(posts)
            /\ \A i \in 1..Len(posts) : analyzed_posts[i].id = posts[i].id
            /\ artifact.exists)

C30_Witness ==
    /\ pc = "done"
    /\ Len(posts) = 2
    /\ Len(analyzed_posts) = 2
    /\ artifact.exists

====
